---- MODULE Spec2Model ----
(***************************************************************************)
(* Hand History Normalization Engine (yvolo_tracker).                      *)
(*                                                                         *)
(* The store is a PostgreSQL database reached through one connection at a  *)
(* time.  `db` is the committed state, `tx` is what the open connection    *)
(* sees (committed state plus its own uncommitted writes): COMMIT copies   *)
(* tx to db, ROLLBACK or closing the connection copies db to tx.           *)
(*                                                                         *)
(* Raw payloads are modelled at token level: an XML document is the tree   *)
(* ElementTree yields, a PokerTracker text is the list of its non-blank    *)
(* lines, each classified by the regular expressions of the scanner.       *)
(* Monetary amounts are whole numbers of cents.                            *)
(***************************************************************************)
EXTENDS Integers, Sequences, FiniteSets, TLC

\* ------------------------------------------------------------------ bounds
NumOwners == 2          \* owners (users.id) 1..NumOwners of the import runs
NumParseOwners == 1     \* owners whose hands the parse runs work on
NumGames  == 2          \* dialect-native game ids 1..NumGames
MaxBatch  == 2          \* longest batch of an import run (SpecImport)
MaxParseBatch == 1      \* longest batch imported between parse runs (Spec)
MaxFiles  == 2          \* most files in the PokerTracker inbox at one run (Spec)
MaxImportFiles == 1     \* the same for the import runs of SpecImport
MaxImports == 2         \* most raw imports (batches, single upserts) in one behaviour
MaxRuns   == 2          \* most runs of a handler or driver in one behaviour
MaxLimit  == 1          \* largest --limit given to the incremental driver

\* BATCH_SIZE of the incremental driver.  The program's value is 500; the
\* model runs the same loop with a batch of 2 so that a store of NumGames
\* hands fills a batch.
BATCH_SIZE == 2

Owners  == 1..NumOwners
ParseOwners == 1..NumParseOwners
GameIds == 1..NumGames
HandIds == 1..(NumOwners * NumGames)

Null == "NULL"          \* SQL NULL / Python None in a text column
None == <<>>            \* Python None for an optional number; <<n>> is n
Some(n) == <<n>>

STREETS == <<"preflop", "flop", "turn", "river">>

\* --------------------------------------------------------- sequence helpers
Range(s) == {s[i] : i \in DOMAIN s}

SeqSum(s) ==
    LET f[i \in 0..Len(s)] == IF i = 0 THEN 0 ELSE f[i-1] + s[i]
    IN  f[Len(s)]

\* ------------------------------------------------ XML dialect (parse_ipoker_v1)
\* An <action> of a <round>: `no` and `type` are optional numbers (None when
\* the attribute is missing or is not an integer), `player` is the attribute
\* text ("" when missing), `sum` is the amount.
XAct(no, player, sum, type) ==
    [no |-> no, player |-> player, sum |-> sum, type |-> type]
\* A <cards> of a <round>: board cards carry no player attribute.
XCards(type, player, text) == [type |-> type, player |-> player, text |-> text]
XRound(no, cards, actions) == [no |-> no, cards |-> cards, actions |-> actions]
XPlayer(name, seat, dealer, chips, bet, win) ==
    [name |-> name, seat |-> seat, dealer |-> dealer, chips |-> chips,
     bet |-> bet, win |-> win]
\* A <game>: has_players says whether ./general/players exists.
XGame(has_players, players, rounds) ==
    [has_players |-> has_players, players |-> players, rounds |-> rounds]
\* A stored raw_text that is XML: its root tag and the <game> elements below.
XmlDoc(root, games) == [fmt |-> "xml", root |-> root, games |-> games]

Raise(msg) == [err |-> TRUE, msg |-> msg]
Ok(v)      == [err |-> FALSE, val |-> v]

ACTION_TYPE_MAP ==
    (0 :> "FOLD") @@ (1 :> "POST_SB") @@ (2 :> "POST_BB") @@ (3 :> "CALL") @@
    (4 :> "CHECK") @@ (5 :> "BET") @@ (6 :> "RAISE") @@ (7 :> "ALLIN") @@
    (15 :> "POST_ANTE") @@ (23 :> "RAISE")

\* A mapping that drops the code of an unknown type.
map_action_type_dropping(type_code) ==
    IF type_code = None THEN "TYPE_UNKNOWN"
    ELSE IF type_code[1] \in DOMAIN ACTION_TYPE_MAP
         THEN ACTION_TYPE_MAP[type_code[1]]
         ELSE "TYPE_UNKNOWN"

map_action_type(type_code) ==
    IF type_code = None THEN "TYPE_UNKNOWN"
    ELSE IF type_code[1] \in DOMAIN ACTION_TYPE_MAP
         THEN ACTION_TYPE_MAP[type_code[1]]
         ELSE "TYPE_" \o ToString(type_code[1])

street_from_round_no(round_no) ==
    IF round_no = None THEN "preflop"
    ELSE LET n == round_no[1] IN
         IF n \in {0, 1} THEN "preflop"
         ELSE IF n = 2 THEN "flop"
         ELSE IF n = 3 THEN "turn"
         ELSE IF n = 4 THEN "river"
         ELSE "preflop"

extract_game_from_raw_xml(raw_text) ==
    IF raw_text.fmt # "xml" THEN Raise("XML parse error")
    ELSE IF raw_text.root = "game" THEN Ok(raw_text.games[1])
    ELSE IF raw_text.games = <<>> THEN Raise("No <game> element found")
    ELSE Ok(raw_text.games[1])

parse_players(game_el) ==
    IF ~game_el.has_players THEN <<>>
    ELSE LET src == game_el.players
             f[i \in 0..Len(src)] ==
                 IF i = 0 THEN <<>>
                 ELSE IF src[i].name = "" THEN f[i-1]
                 ELSE Append(f[i-1],
                        [screen_name |-> src[i].name, seat |-> src[i].seat,
                         starting_stack |-> src[i].chips,
                         is_dealer |-> src[i].dealer,
                         bet_total |-> src[i].bet, win_total |-> src[i].win])
         IN  f[Len(src)]

\* The board a <cards> element sets, applied to the board so far.
BoardAfterCards(board, street, c) ==
    IF c.player # "" \/ c.text = "" THEN board
    ELSE IF c.type \in {"flop", "turn", "river"}
         THEN [board EXCEPT ![c.type] = c.text]
    ELSE IF street \in {"flop", "turn", "river"}
         THEN [board EXCEPT ![street] = c.text]
    ELSE board

parse_boards(game_el) ==
    LET rs == game_el.rounds
        one(board, rnd) ==
            LET street == street_from_round_no(rnd.no)
                g[j \in 0..Len(rnd.cards)] ==
                    IF j = 0 THEN board
                    ELSE BoardAfterCards(g[j-1], street, rnd.cards[j])
            IN  g[Len(rnd.cards)]
        f[i \in 0..Len(rs)] ==
            IF i = 0
            THEN [s \in Range(STREETS) |-> Null]
            ELSE one(f[i-1], rs[i])
    IN  f[Len(rs)]

StreetRank(street) ==
    CASE street = "preflop" -> 0 [] street = "flop" -> 1
      [] street = "turn" -> 2 [] street = "river" -> 3 [] OTHER -> 9

NoNumberKey == 1000000000   \* 10**9, the sort key of an action without a number

ActionKeyLess(a, b) ==
    LET ka == IF a.action_no = None THEN NoNumberKey ELSE a.action_no[1]
        kb == IF b.action_no = None THEN NoNumberKey ELSE b.action_no[1]
    IN  \/ StreetRank(a.street) < StreetRank(b.street)
        \/ StreetRank(a.street) = StreetRank(b.street) /\ ka < kb

\* actions.sort(key=...): Python's sort is stable; insertion keeps x after
\* every element whose key is not greater.
RECURSIVE InsertAction(_, _)
InsertAction(s, x) ==
    IF s = <<>> THEN <<x>>
    ELSE IF ActionKeyLess(x, s[Len(s)])
         THEN Append(InsertAction(SubSeq(s, 1, Len(s) - 1), x), s[Len(s)])
         ELSE Append(s, x)

SortActions(s) ==
    LET f[i \in 0..Len(s)] ==
            IF i = 0 THEN <<>> ELSE InsertAction(f[i-1], s[i])
    IN  f[Len(s)]

Renumber(s) == [i \in DOMAIN s |-> [s[i] EXCEPT !.action_no = i]]

\* The actions of one <round>, appended to acc.
RoundActions(acc, rnd) ==
    LET street == street_from_round_no(rnd.no)
        g[j \in 0..Len(rnd.actions)] ==
            IF j = 0 THEN acc
            ELSE LET a == rnd.actions[j]
                     atype == map_action_type(a.type) IN
                 IF a.player = "" THEN g[j-1]
                 ELSE Append(g[j-1],
                        [street |-> street, action_no |-> a.no,
                         player |-> a.player, action_type |-> atype,
                         amount |-> a.sum, is_allin |-> (atype = "ALLIN")])
    IN  g[Len(rnd.actions)]

parse_actions(game_el) ==
    LET rs == game_el.rounds
        f[i \in 0..Len(rs)] ==
            IF i = 0 THEN <<>> ELSE RoundActions(f[i-1], rs[i])
    IN  Renumber(SortActions(f[Len(rs)]))

\* process_hand / process_hand_incremental: one result per listed player.
xml_results(players) ==
    [i \in DOMAIN players |->
        [player |-> players[i].screen_name,
         won_amount |-> players[i].win_total,
         net_amount |-> players[i].win_total - players[i].bet_total]]

\* ------------------------- PokerTracker dialect (parse_pokertracker_ipoker)
\* The non-blank, stripped lines of a text, classified by the scanner's
\* regular expressions:
\*   game     GAME #<digits> ...            (no '<name>: ' prefix)
\*   size     Table Size <n>
\*   seat     Seat <n>: <name> (<amount> in chips) [DEALER]
\*   banner   *** HOLE CARDS|FLOP|TURN|RIVER *** [board]
\*   summary  *** SUMMARY ***
\*   colon    <name>: <verb> [<amount>]     (verb is the text's leading words)
\*   pot      Total pot <amount> Rake <amount>
\*   other    any other line without '<name>: '
PGame(id) == [k |-> "game", id |-> id]
PSize(n) == [k |-> "size", n |-> n]
PSeat(seat, name, stack, dealer) ==
    [k |-> "seat", seat |-> seat, name |-> name, stack |-> stack,
     dealer |-> dealer]
PBanner(street, board) == [k |-> "banner", street |-> street, board |-> board]
PSummary == [k |-> "summary"]
PColon(name, verb, amt, allin) ==
    [k |-> "colon", name |-> name, verb |-> verb, amt |-> amt, allin |-> allin]
PPot(amt, rake) == [k |-> "pot", amt |-> amt, rake |-> rake]
POther == [k |-> "other"]
\* A PokerTracker text file.
PtText(lines) == [fmt |-> "text", lines |-> lines]

StakeVerbs == {"Post SB", "Post BB", "Post Ante", "Call", "Bet", "Raise"}

\* The if/elif chain on action_text.startswith(...); Null is the final
\* `continue` ('Dealt to' and every unknown text).
pt_action_type(verb) ==
    IF verb = "Post SB" THEN "POST_SB"
    ELSE IF verb = "Post BB" THEN "POST_BB"
    ELSE IF verb = "Post Ante" THEN "POST_ANTE"
    ELSE IF verb = "Fold" THEN "FOLD"
    ELSE IF verb = "Check" THEN "CHECK"
    ELSE IF verb = "Call" THEN "CALL"
    ELSE IF verb = "Bet" THEN "BET"
    ELSE IF verb = "Raise" THEN "RAISE"
    ELSE Null

DefaultTableSize == 2
TableSizeWindow == 10      \* lines[:10]

pt_table_size(lines) ==
    LET n == IF Len(lines) < TableSizeWindow THEN Len(lines)
             ELSE TableSizeWindow
        hits == {i \in 1..n : lines[i].k = "size"}
    IN  IF hits = {} THEN DefaultTableSize
        ELSE lines[CHOOSE i \in hits : \A j \in hits : i <= j].n

pt_players(lines) ==
    LET f[i \in 0..Len(lines)] ==
            IF i = 0 THEN <<>>
            ELSE IF lines[i].k = "seat"
                 THEN Append(f[i-1],
                        [screen_name |-> lines[i].name, seat |-> lines[i].seat,
                         starting_stack |-> lines[i].stack,
                         is_dealer |-> lines[i].dealer])
                 ELSE f[i-1]
    IN  f[Len(lines)]

\* The first action number the scanner hands out is action_no + 1.
pt_next_action_no(action_no) == action_no + 1

\* One iteration of the street/action loop (lines 109-212) on scanner state st.
pt_scan_line(st, line) ==
    IF st.stop \/ st.err THEN st
    ELSE IF line.k = "summary" THEN [st EXCEPT !.stop = TRUE]
    ELSE IF line.k = "banner" THEN
        IF line.street = "hole" THEN [st EXCEPT !.street = "preflop"]
        ELSE [st EXCEPT !.street = line.street,
                        !.streets[line.street] =
                            IF line.board # Null THEN line.board ELSE @]
    ELSE IF line.k = "seat" THEN
        \* 'Seat 1: A (...)' matches ^([^:]+):\s+(.*) with an unknown text
        [st EXCEPT !.action_no = pt_next_action_no(@)]
    ELSE IF line.k = "colon" THEN
        LET no == pt_next_action_no(st.action_no)
            atype == pt_action_type(line.verb)
            pays == line.verb \in StakeVerbs /\ line.amt # None
            amount == IF pays THEN line.amt[1] ELSE 0
        IN  IF atype = Null THEN [st EXCEPT !.action_no = no]
            ELSE IF pays /\ line.name \notin DOMAIN st.invested
                 THEN [st EXCEPT !.err = TRUE]          \* KeyError
            ELSE [st EXCEPT
                    !.action_no = no,
                    !.invested = IF pays
                                 THEN [@ EXCEPT ![line.name] = @ + amount]
                                 ELSE @,
                    !.actions = Append(@,
                        [street |-> st.street, action_no |-> no,
                         player |-> line.name, action_type |-> atype,
                         amount |-> amount, is_allin |-> line.allin])]
    ELSE st

pt_scan(lines, players) ==
    LET names == {players[i].screen_name : i \in DOMAIN players}
        init == [street |-> "preflop", action_no |-> 0, actions |-> <<>>,
                 invested |-> [n \in names |-> 0],
                 streets |-> [s \in Range(STREETS) |-> Null],
                 stop |-> FALSE, err |-> FALSE]
        f[i \in 0..Len(lines)] ==
            IF i = 0 THEN init ELSE pt_scan_line(f[i-1], lines[i])
    IN  f[Len(lines)]

\* The '<name>: wins <amount>' lines after the summary banner, in file order.
pt_winner_results(lines, invested) ==
    LET f[i \in 0..Len(lines)] ==
            IF i = 0 THEN [in_summary |-> FALSE, results |-> <<>>]
            ELSE LET st == f[i-1] l == lines[i] IN
                 IF l.k = "summary" THEN [st EXCEPT !.in_summary = TRUE]
                 ELSE IF st.in_summary /\ l.k = "colon" /\ l.verb = "wins"
                         /\ l.amt # None
                 THEN [st EXCEPT !.results = Append(@,
                        [player |-> l.name, won_amount |-> l.amt[1],
                         net_amount |-> l.amt[1] -
                            (IF l.name \in DOMAIN invested
                             THEN invested[l.name] ELSE 0)])]
                 ELSE st
    IN  f[Len(lines)].results

\* Whether a player who is not among the winners gets a synthesized row.
pt_gets_loss_row(invested) == invested > 0

\* 'Add players who didn't win': player_invested.items() iterates the names
\* in the order of their first seat line.
pt_loser_results(players, invested, winner_rows) ==
    LET winners == {winner_rows[i].player : i \in DOMAIN winner_rows}
        f[i \in 0..Len(players)] ==
            IF i = 0 THEN <<>>
            ELSE LET n == players[i].screen_name IN
                 IF /\ \A j \in 1..(i-1) : players[j].screen_name # n
                    /\ n \notin winners
                    /\ pt_gets_loss_row(invested[n])
                 THEN Append(f[i-1], [player |-> n, won_amount |-> 0,
                                      net_amount |-> 0 - invested[n]])
                 ELSE f[i-1]
    IN  f[Len(players)]

\* raw_text.split('\n'), blank lines dropped.  The lines of an XML document
\* match none of the scanner's patterns.
pt_lines(raw_text) ==
    IF raw_text.fmt = "text" THEN raw_text.lines ELSE <<POther>>

parse_pokertracker_ipoker(raw_text) ==
    LET lines == pt_lines(raw_text) IN
    IF lines = <<>> THEN Raise("Empty hand text")
    ELSE IF lines[1].k # "game" THEN Raise("Invalid hand format")
    ELSE LET players == pt_players(lines) IN
    IF players = <<>> THEN Raise("No players found in hand")
    ELSE LET sc == pt_scan(lines, players) IN
    IF sc.err THEN Raise("KeyError")
    ELSE LET won == pt_winner_results(lines, sc.invested) IN
         Ok([game_id |-> lines[1].id,
             table_size |-> pt_table_size(lines),
             players |-> players,
             streets |-> sc.streets,
             actions |-> sc.actions,
             results |-> won \o pt_loser_results(players, sc.invested, won)])

\* ------------------------------------------------------------- the store
\* Tables.  hands and players are sets of rows; the child tables are kept
\* per hand_id.  actions has no uniqueness constraint and is kept in
\* insertion order; hand_players, streets, hand_results and hand_sizes are
\* UNIQUE per (hand_id, player_id) / (hand_id, street) / (hand_id).
EmptyDb ==
    [hands        |-> {},
     players      |-> {},
     hand_players |-> [h \in HandIds |-> {}],
     streets      |-> [h \in HandIds |-> {}],
     actions      |-> [h \in HandIds |-> <<>>],
     hand_results |-> [h \in HandIds |-> <<>>],
     hand_sizes   |-> [h \in HandIds |-> {}],
     \* history column, no table of the program: the raw_text and the path
     \* ("xml" or "pt") of the last parse that wrote the hand's rows
     parsed_from  |-> [h \in HandIds |-> None]]

SetMax(S) == CHOOSE x \in S : \A y \in S : y <= x

\* A serial id: RETURNING id of a fresh row.
NewId(rows) == IF rows = {} THEN 1 ELSE SetMax({r.id : r \in rows}) + 1

\* Variant: a conflict target of game_id alone, whoever owns the row.
HandRowAnyOwner(d, user_id, game_id) ==
    {r \in d.hands : r.game_id = game_id}

\* The hands row of (user_id, game_id): the UNIQUE (user_id, game_id) target.
HandRow(d, user_id, game_id) ==
    {r \in d.hands : r.user_id = user_id /\ r.game_id = game_id}

\* INSERT INTO hands ... ON CONFLICT (user_id, game_id) DO UPDATE SET raw_text..
\* (insert_hands_batch, one row of the executemany; upsert_hand).
upsert_hand(d, user_id, game_id, raw_text) ==
    IF HandRow(d, user_id, game_id) # {}
    THEN [d EXCEPT !.hands =
            {IF r.user_id = user_id /\ r.game_id = game_id
             THEN [r EXCEPT !.raw_text = raw_text] ELSE r : r \in @}]
    ELSE [d EXCEPT !.hands = @ \cup
            {[id |-> NewId(d.hands), user_id |-> user_id,
              game_id |-> game_id, raw_text |-> raw_text]}]

\* INSERT INTO hands ... ON CONFLICT (user_id, game_id) DO NOTHING RETURNING id
\* (import_pokertracker): id is None when the row exists.
insert_hand_do_nothing(d, user_id, game_id, raw_text) ==
    IF HandRow(d, user_id, game_id) # {}
    THEN [db |-> d, id |-> None]
    ELSE [db |-> [d EXCEPT !.hands = @ \cup
                    {[id |-> NewId(d.hands), user_id |-> user_id,
                      game_id |-> game_id, raw_text |-> raw_text]}],
          id |-> Some(NewId(d.hands))]

PlayerRow(d, user_id, screen_name) ==
    {r \in d.players : r.user_id = user_id /\ r.screen_name = screen_name}

\* Variant: a plain INSERT ... RETURNING id, no ON CONFLICT arm.
upsert_player_plain_insert(d, user_id, screen_name) ==
    [db |-> [d EXCEPT !.players = @ \cup
                {[id |-> NewId(d.players), user_id |-> user_id,
                  screen_name |-> screen_name]}],
     id |-> NewId(d.players)]

\* INSERT INTO players ... ON CONFLICT (user_id, screen_name) DO UPDATE ...
\* RETURNING id.
upsert_player(d, user_id, screen_name) ==
    IF PlayerRow(d, user_id, screen_name) # {}
    THEN [db |-> d,
          id |-> (CHOOSE r \in PlayerRow(d, user_id, screen_name) : TRUE).id]
    ELSE [db |-> [d EXCEPT !.players = @ \cup
                    {[id |-> NewId(d.players), user_id |-> user_id,
                      screen_name |-> screen_name]}],
          id |-> NewId(d.players)]

\* The loop 'for p in players: pid = upsert_player(...)'.
upsert_players(d, user_id, players) ==
    LET f[i \in 0..Len(players)] ==
            IF i = 0 THEN d
            ELSE upsert_player(f[i-1], user_id, players[i].screen_name).db
    IN  f[Len(players)]

\* player_name_to_id after that loop: the names of the players list.
player_name_to_id(d, user_id, players) ==
    [n \in {players[i].screen_name : i \in DOMAIN players} |->
        upsert_player(d, user_id, n).id]

\* The hand_players rows of a hand that the statement leaves in place.
hand_players_kept(rows, player_id) == {r \in rows : r.player_id # player_id}

\* INSERT INTO hand_players ... ON CONFLICT (hand_id, player_id) DO UPDATE.
upsert_hand_player(d, hand_id, player_id, seat, starting_stack, is_dealer) ==
    [d EXCEPT !.hand_players[hand_id] =
        hand_players_kept(@, player_id) \cup
        {[player_id |-> player_id, seat |-> seat,
          starting_stack |-> starting_stack, is_dealer |-> is_dealer]}]

upsert_hand_players(d, hand_id, players, name_to_id) ==
    LET f[i \in 0..Len(players)] ==
            IF i = 0 THEN d
            ELSE upsert_hand_player(f[i-1], hand_id,
                    name_to_id[players[i].screen_name], players[i].seat,
                    players[i].starting_stack, players[i].is_dealer)
    IN  f[Len(players)]

\* Variant: a street is written only when it has a board.
upsert_street_if_board(d, hand_id, street, board) ==
    IF board = Null THEN d
    ELSE [d EXCEPT !.streets[hand_id] =
            {r \in @ : r.street # street} \cup
            {[street |-> street, board |-> board]}]

\* INSERT INTO streets ... ON CONFLICT (hand_id, street) DO UPDATE SET board.
upsert_street(d, hand_id, street, board) ==
    [d EXCEPT !.streets[hand_id] =
        {r \in @ : r.street # street} \cup
        {[street |-> street, board |-> board]}]

\* for street in ("preflop", "flop", "turn", "river") / parsed['streets'].items()
upsert_streets(d, hand_id, boards) ==
    LET f[i \in 0..Len(STREETS)] ==
            IF i = 0 THEN d
            ELSE upsert_street(f[i-1], hand_id, STREETS[i], boards[STREETS[i]])
    IN  f[Len(STREETS)]

\* Variant: no DELETE, the earlier rows of the hand stay.
actions_not_deleted(rows) == rows

\* DELETE FROM actions WHERE hand_id = %s: the rows of the hand that remain.
actions_after_delete(rows) == <<>>

\* Variant without the skip: an action of a name outside player_name_to_id
\* is inserted with a player id that no players row has.
replace_actions_unchecked(d, hand_id, actions, name_to_id) ==
    [d EXCEPT !.actions[hand_id] =
        [i \in DOMAIN actions |->
            [street |-> actions[i].street, action_no |-> actions[i].action_no,
             player_id |-> IF actions[i].player \in DOMAIN name_to_id
                           THEN name_to_id[actions[i].player] ELSE 0,
             action_type |-> actions[i].action_type,
             amount |-> actions[i].amount, is_allin |-> actions[i].is_allin]]]

\* DELETE, then INSERT every action whose player is in player_name_to_id.
replace_actions(d, hand_id, actions, name_to_id) ==
    LET f[i \in 0..Len(actions)] ==
            IF i = 0 THEN actions_after_delete(d.actions[hand_id])
            ELSE LET a == actions[i] IN
                 IF a.player \notin DOMAIN name_to_id THEN f[i-1]
                 ELSE Append(f[i-1],
                        [street |-> a.street, action_no |-> a.action_no,
                         player_id |-> name_to_id[a.player],
                         action_type |-> a.action_type, amount |-> a.amount,
                         is_allin |-> a.is_allin])
    IN  [d EXCEPT !.actions[hand_id] = f[Len(actions)]]

\* DELETE, then INSERT every result whose player is in player_name_to_id.
\* A second row for the same (hand_id, player_id) violates the UNIQUE
\* constraint of hand_results: the statement raises and the rows inserted
\* before it are the transaction's uncommitted writes.
replace_hand_results(d, hand_id, results, name_to_id) ==
    LET f[i \in 0..Len(results)] ==
            IF i = 0 THEN [rows |-> <<>>, err |-> FALSE]
            ELSE LET st == f[i-1] r == results[i] IN
                 IF st.err \/ r.player \notin DOMAIN name_to_id THEN st
                 ELSE IF \E j \in DOMAIN st.rows :
                            st.rows[j].player_id = name_to_id[r.player]
                 THEN [st EXCEPT !.err = TRUE]
                 ELSE [st EXCEPT !.rows = Append(@,
                        [player_id |-> name_to_id[r.player],
                         won_amount |-> r.won_amount,
                         net_amount |-> r.net_amount])]
        out == f[Len(results)]
    IN  [db |-> [d EXCEPT !.hand_results[hand_id] = out.rows],
         err |-> out.err, count |-> Len(out.rows)]

\* INSERT INTO hand_sizes ... ON CONFLICT (hand_id) DO UPDATE SET player_count.
upsert_hand_size(d, hand_id, player_count) ==
    [d EXCEPT !.hand_sizes[hand_id] = {[player_count |-> player_count]}]

\* -------------------------------------------------- storing one parsed hand
\* process_hand (dry_run = False): parse the raw_text and write the rows.
\* err is an exception leaving the function; db holds the writes made before
\* it was raised.
process_hand(d, user_id, hand_id, raw_text) ==
    LET g == extract_game_from_raw_xml(raw_text) IN
    IF g.err THEN [err |-> TRUE, db |-> d, actions_count |-> 0,
                   results_count |-> 0]
    ELSE
    LET players == parse_players(g.val)
        boards  == parse_boards(g.val)
        actions == parse_actions(g.val)
        results == xml_results(players)
        d1  == upsert_players(d, user_id, players)
        ids == player_name_to_id(d1, user_id, players)
        d2  == upsert_hand_players(d1, hand_id, players, ids)
        d3  == upsert_streets(d2, hand_id, boards)
        d4  == replace_actions(d3, hand_id, actions, ids)
        r5  == replace_hand_results(d4, hand_id, results, ids)
    IN  [err |-> r5.err, db |-> r5.db,
         actions_count |-> Len(d4.actions[hand_id]),
         results_count |-> r5.count]

\* process_hand_incremental: the incremental driver's copy of process_hand.
process_hand_incremental(d, user_id, hand_id, raw_text) ==
    LET g == extract_game_from_raw_xml(raw_text) IN
    IF g.err THEN [err |-> TRUE, db |-> d, actions_count |-> 0,
                   results_count |-> 0]
    ELSE
    LET players == parse_players(g.val)
        boards  == parse_boards(g.val)
        actions == parse_actions(g.val)
        results == xml_results(players)
        d1  == upsert_players(d, user_id, players)
        ids == player_name_to_id(d1, user_id, players)
        d2  == upsert_hand_players(d1, hand_id, players, ids)
        d3  == upsert_streets(d2, hand_id, boards)
        d4  == replace_actions(d3, hand_id, actions, ids)
        r5  == replace_hand_results(d4, hand_id, results, ids)
    IN  [err |-> r5.err, db |-> r5.db,
         actions_count |-> Len(d4.actions[hand_id]),
         results_count |-> r5.count]

\* store_parsed_hand: write the rows of a parse_pokertracker_ipoker result.
store_parsed_hand(d, user_id, hand_id, parsed) ==
    LET d1  == upsert_players(d, user_id, parsed.players)
        ids == player_name_to_id(d1, user_id, parsed.players)
        d2  == upsert_hand_players(d1, hand_id, parsed.players, ids)
        d3  == upsert_streets(d2, hand_id, parsed.streets)
        d4  == replace_actions(d3, hand_id, parsed.actions, ids)
        r5  == replace_hand_results(d4, hand_id, parsed.results, ids)
    IN  IF r5.err THEN [err |-> TRUE, db |-> r5.db]
        ELSE [err |-> FALSE,
              db |-> upsert_hand_size(r5.db, hand_id, parsed.table_size)]

\* conn.commit() / conn.rollback() / conn.close(): the committed state and
\* the connection's view after the call, given the committed state c and
\* the view t before it.
Commit(c, t) == [db |-> t, tx |-> t]
\* Variant: the except branch without conn.rollback(), the writes stay in
\* the open transaction.
RollbackKeepsWrites(c, t) == [db |-> c, tx |-> t]
Rollback(c, t) == [db |-> c, tx |-> c]

\* ------------------------------------------------------------ raw payloads
\* <game> elements.  GameAB: two players, actions out of native order, a flop.
GameAB ==
    XGame(TRUE,
      <<XPlayer("A", 1, TRUE, 100, 2, 3), XPlayer("B", 2, FALSE, 100, 1, 0)>>,
      <<XRound(Some(1), <<>>,
               <<XAct(Some(2), "B", 1, Some(3)), XAct(Some(1), "A", 2, Some(5))>>),
        XRound(Some(2), <<XCards("flop", "", "D3 HK D2")>>,
               <<XAct(None, "A", 0, Some(4))>>)>>)
\* GameAC: player C in B's seat, and a first action by a player X that the
\* players list does not hold.
GameAC ==
    XGame(TRUE,
      <<XPlayer("A", 1, TRUE, 100, 2, 3), XPlayer("C", 2, FALSE, 100, 1, 0)>>,
      <<XRound(Some(1), <<>>,
               <<XAct(Some(1), "X", 1, Some(3)), XAct(Some(2), "A", 2, Some(5)),
                 XAct(Some(3), "C", 1, Some(3))>>)>>)
\* GameDup: the players list names A twice.
GameDup ==
    XGame(TRUE,
      <<XPlayer("A", 1, TRUE, 100, 1, 0), XPlayer("A", 2, FALSE, 50, 0, 1)>>,
      <<XRound(Some(1), <<>>, <<XAct(Some(1), "A", 1, Some(5))>>)>>)
\* GameNone: no <players> element.
GameNone == XGame(FALSE, <<>>, <<XRound(Some(1), <<>>, <<>>)>>)

\* PokerTracker texts with header GAME #g.
\* PtThree: three seats, A folds without investing, C wins the pot of 3
\* less the rake of 1.
PtThree(g) ==
    PtText(<<PGame(g), PSize(3),
             PSeat(1, "A", 100, TRUE), PSeat(2, "B", 100, FALSE),
             PSeat(3, "C", 100, FALSE),
             PBanner("hole", Null), POther,
             PColon("A", "Fold", None, FALSE),
             PColon("B", "Post SB", Some(1), FALSE),
             PColon("C", "Post BB", Some(2), FALSE),
             PColon("B", "Fold", None, FALSE),
             PSummary, PPot(3, 1), PColon("C", "wins", Some(2), FALSE)>>)
\* PtTwoWins: the summary has two 'wins' lines for B.
PtTwoWins(g) ==
    PtText(<<PGame(g),
             PSeat(1, "A", 100, TRUE), PSeat(2, "B", 100, FALSE),
             PColon("A", "Post SB", Some(1), FALSE),
             PColon("B", "Post BB", Some(2), FALSE),
             PColon("A", "Call", Some(1), FALSE),
             PBanner("flop", "D3 HK D2"),
             PColon("A", "Check", None, FALSE),
             PColon("B", "Check", None, FALSE),
             PSummary, PPot(4, 0), PColon("B", "wins", Some(2), FALSE),
             PColon("B", "wins", Some(2), FALSE)>>)
\* PtNoSeat: a header and no seat line.
PtNoSeat(g) == PtText(<<PGame(g), PSummary>>)
\* PtConcat: a file of two hands, GAME #g and then the next game id: A and
\* B play the first and B wins it, A and C play the second and A wins it.
NextGame(g) == (g % NumGames) + 1
PtConcat(g) ==
    PtText(<<PGame(g),
             PSeat(1, "A", 100, TRUE), PSeat(2, "B", 100, FALSE),
             PColon("A", "Post SB", Some(1), FALSE),
             PColon("B", "Post BB", Some(2), FALSE),
             PColon("A", "Fold", None, FALSE),
             PSummary, PPot(3, 0), PColon("B", "wins", Some(3), FALSE),
             PGame(NextGame(g)),
             PSeat(1, "A", 100, FALSE), PSeat(2, "C", 100, TRUE),
             PColon("C", "Post SB", Some(1), FALSE),
             PColon("A", "Post BB", Some(2), FALSE),
             PColon("C", "Fold", None, FALSE),
             PSummary, PPot(3, 0), PColon("A", "wins", Some(3), FALSE)>>)

\* The store and the inbox hold texts; the model names each text of its
\* universe by a key (name, g) and Text gives the text a key names.  g is
\* the game id of a PokerTracker header, 0 for an XML document.
Key(name, g) == [name |-> name, g |-> g]

Text(key) ==
    CASE key.name = "GameAB"    -> XmlDoc("game", <<GameAB>>)
      [] key.name = "GameAC"    -> XmlDoc("hand", <<GameAC>>)
      [] key.name = "GameDup"   -> XmlDoc("game", <<GameDup>>)
      [] key.name = "GameNone"  -> XmlDoc("session", <<GameNone>>)
      [] key.name = "PtThree"   -> PtThree(key.g)
      [] key.name = "PtTwoWins" -> PtTwoWins(key.g)
      [] key.name = "PtNoSeat"  -> PtNoSeat(key.g)
      [] key.name = "PtConcat"  -> PtConcat(key.g)

XmlNames == {"GameAB", "GameAC", "GameDup", "GameNone"}
PtNames  == {"PtThree", "PtTwoWins", "PtNoSeat"}

\* The files an inbox of PokerTracker texts can hold.
PtTexts == {Key(n, g) : n \in PtNames, g \in GameIds}

\* What import_folder can hand to insert_hands_batch under game id g: an XML
\* hand, or a text block whose header carries g.
BatchTexts(g) == {Key(n, 0) : n \in XmlNames} \cup {Key("PtThree", g)}

\* Two XML hands: all that the raw import paths need of a payload is that
\* it can differ from the stored one.
ImportTexts(g) == {Key("GameAB", 0), Key("GameAC", 0)}

\* ------------------------------------------------------------------ state
VARIABLES
    db,       \* committed state of the store
    tx,       \* the open connection's view: db plus its uncommitted writes
    pc,       \* "idle", or the position of the running program
    user,     \* user_id of the running program (0 when idle)
    ops,      \* raw imports and runs started so far
    last,     \* import_folder: (inserted, duplicates) of its insert_hands_batch
    ptr,      \* import_pokertracker: files left and the four counters
    mainr,    \* parse_ipoker_v1.main: hands left and the counters
    inc,      \* incremental driver: remaining, offset, batch and the counters
    imported, \* history: the (owner, game_id) pairs an import path has stored
              \* or classified as already stored
    cc,       \* concurrent processes on one store: rows and each process
    call      \* one call of a pure function: its name, argument and result

vars == <<db, tx, pc, user, ops, last, ptr, mainr, inc, imported, cc, call>>

\* The state of the one-connection programs.
seqvars == <<db, tx, pc, user, ops, last, ptr, mainr, inc, imported>>

NumProcs == 2           \* concurrent processes
Procs == 1..NumProcs

\* A process that is not running, and a store without concurrent processes.
NoProc == [pc |-> "off", username |-> "", game_id |-> 0, user_id |-> None,
           pend |-> {}]
NoCc == [unique |-> TRUE, rows |-> {}, p |-> [q \in Procs |-> NoProc]]
\* No call.
NoCall == [fn |-> "", arg |-> <<>>, ret |-> <<>>]

NoLast == [inserted |-> 0, duplicates |-> 0]
NoPt   == [left |-> 0, scanned_files |-> 0, imported_ok |-> 0,
           duplicates_skipped |-> 0, failed_files |-> 0]
NoMain == [hands |-> <<>>, parsed_hands |-> 0, errors |-> 0]
NoInc  == [limit |-> None, remaining |-> 0, offset |-> 0, hands |-> <<>>,
           i |-> 0, total_parsed |-> 0, total_errors |-> 0,
           \* history: the unparsed hands counted as `pending` at the start
           pending |-> {}]

Init ==
    /\ db = EmptyDb /\ tx = EmptyDb
    /\ pc = "idle" /\ user = 0 /\ ops = [imports |-> 0, runs |-> 0]
    /\ last = NoLast /\ ptr = NoPt /\ mainr = NoMain /\ inc = NoInc
    /\ imported = {}
    /\ cc = NoCc /\ call = NoCall

\* ORDER BY id of a set of hands rows.
RECURSIVE OrderById(_)
OrderById(rows) ==
    IF rows = {} THEN <<>>
    ELSE LET r == CHOOSE x \in rows : \A y \in rows : x.id <= y.id
         IN  <<r>> \o OrderById(rows \ {r})

\* LIMIT l OFFSET o of an ordered result.
LimitOffset(s, l, o) ==
    SubSeq(s, o + 1, IF o + l < Len(s) THEN o + l ELSE Len(s))

Mark(d, hand_id, raw_text, path) ==
    [d EXCEPT !.parsed_from[hand_id] =
        Some([raw_text |-> raw_text, path |-> path])]

\* ------------------------------------------------------- raw import paths
get_existing_game_ids(d, user_id, game_ids) ==
    {g \in game_ids : HandRow(d, user_id, g) # {}}

\* The hands table after the executemany of insert_hands_batch.
insert_hands_rows(d, user_id, batch) ==
    LET f[i \in 0..Len(batch)] ==
            IF i = 0 THEN d
            ELSE upsert_hand(f[i-1], user_id, batch[i].game_id,
                             batch[i].raw_text)
    IN  f[Len(batch)]

insert_hands_batch(d, user_id, batch) ==
    IF batch = <<>> THEN [db |-> d, inserted |-> 0, duplicates |-> 0]
    ELSE
    LET existing == get_existing_game_ids(d, user_id,
                        {batch[i].game_id : i \in DOMAIN batch})
        duplicates == Cardinality({i \in DOMAIN batch :
                                      batch[i].game_id \in existing})
    IN  [db |-> insert_hands_rows(d, user_id, batch),
         inserted |-> Len(batch) - duplicates,
         duplicates |-> duplicates]

\* The batches of at most m hands whose texts T[g] allows.
Batches(T, m) ==
    UNION {[1..n -> UNION {{[game_id |-> g, raw_text |-> t] : t \in T[g]}
                           : g \in GameIds}]
           : n \in 1..m}

\* import_folder with one batch: insert_hands_batch, which commits, then
\* the 'Import Finished' report of the counts.
ImportBatch(u, batch) ==
    /\ pc = "idle" /\ ops.imports < MaxImports
    /\ LET r == insert_hands_batch(db, u, batch)
           c == Commit(db, r.db) IN
       /\ db' = c.db /\ tx' = c.tx
       /\ last' = [inserted |-> r.inserted, duplicates |-> r.duplicates]
    /\ pc' = "import_done" /\ user' = u
    /\ ops' = [ops EXCEPT !.imports = @ + 1]
    /\ imported' = imported \cup {<<u, batch[i].game_id>> : i \in DOMAIN batch}
    /\ UNCHANGED <<ptr, mainr, inc, cc, call>>

\* insert_raw_hand_demo.main: upsert_hand of one hand, then commit.
UpsertHandDemo(u, g, t) ==
    /\ pc = "idle" /\ ops.imports < MaxImports
    /\ LET c == Commit(db, upsert_hand(db, u, g, t)) IN
       db' = c.db /\ tx' = c.tx
    /\ ops' = [ops EXCEPT !.imports = @ + 1]
    /\ imported' = imported \cup {<<u, g>>}
    /\ UNCHANGED <<pc, user, last, ptr, mainr, inc, cc, call>>

\* ------------------------------------------ import_pokertracker (app.py)
StartPt(u, n) ==
    /\ pc = "idle" /\ ops.runs < MaxRuns
    /\ pc' = "pt" /\ user' = u /\ ops' = [ops EXCEPT !.runs = @ + 1]
    /\ ptr' = [NoPt EXCEPT !.left = n]
    /\ tx' = db
    /\ UNCHANGED <<db, last, mainr, inc, imported, cc, call>>

\* The body of 'for file_path in txt_files' for one file: its outcome is the
\* store (committed state and connection view) and the counters after it.
\* move_ok says whether shutil.move to the processed folder succeeds.
pt_file(c, t, u, counters, raw_text, move_ok) ==
    LET scanned == [counters EXCEPT !.scanned_files = @ + 1,
                                   !.left = @ - 1]
        failed(cnt, c0, tt) ==
            \* except Exception: failed_files += 1 ... conn.rollback()
            LET rb == Rollback(c0, tt) IN
            [db |-> rb.db, tx |-> rb.tx,
             counters |-> [cnt EXCEPT !.failed_files = @ + 1]]
        parsed == parse_pokertracker_ipoker(Text(raw_text))
    IN
    IF parsed.err THEN failed(scanned, c, t)
    ELSE
    LET ins == insert_hand_do_nothing(t, u, parsed.val.game_id, raw_text) IN
    IF ins.id # None THEN
        LET st == store_parsed_hand(ins.db, u, ins.id[1], parsed.val) IN
        IF st.err THEN failed(scanned, c, st.db)
        ELSE
        LET cm  == Commit(c, Mark(st.db, ins.id[1], raw_text, "pt"))
            cnt == [scanned EXCEPT !.imported_ok = @ + 1] IN
        IF move_ok THEN [db |-> cm.db, tx |-> cm.tx, counters |-> cnt]
        ELSE failed(cnt, cm.db, cm.tx)
    ELSE
        LET cnt == [scanned EXCEPT !.duplicates_skipped = @ + 1] IN
        IF move_ok THEN [db |-> c, tx |-> ins.db, counters |-> cnt]
        ELSE failed(cnt, c, ins.db)

PtFile(raw_text, move_ok) ==
    /\ pc = "pt" /\ ptr.left > 0
    /\ \E r \in {pt_file(db, tx, user, ptr, raw_text, move_ok)} :
       /\ db' = r.db /\ tx' = r.tx /\ ptr' = r.counters
       /\ imported' =
            IF \/ r.counters.imported_ok > ptr.imported_ok
               \/ r.counters.duplicates_skipped > ptr.duplicates_skipped
            THEN imported \cup {<<user, raw_text.g>>}
            ELSE imported
    /\ UNCHANGED <<pc, user, ops, last, mainr, inc, cc, call>>

\* The loop is over: finally conn.close(), then the redirect with the summary.
PtDone ==
    /\ pc = "pt" /\ ptr.left = 0
    /\ pc' = "pt_done"
    /\ tx' = Rollback(db, tx).tx
    /\ UNCHANGED <<db, user, ops, last, ptr, mainr, inc, imported, cc, call>>

\* --------------------------------------------------- parse_ipoker_v1.main
DefaultLimit == 500     \* --limit default

\* SELECT ... FROM hands WHERE user_id = %s ORDER BY id ASC LIMIT .. OFFSET 0
main_hands(d, user_id) ==
    LimitOffset(OrderById({r \in d.hands : r.user_id = user_id}),
                DefaultLimit, 0)

StartMain(u) ==
    /\ pc = "idle" /\ ops.runs < MaxRuns
    /\ main_hands(db, u) # <<>>
    /\ pc' = "main" /\ user' = u /\ ops' = [ops EXCEPT !.runs = @ + 1]
    /\ mainr' = [NoMain EXCEPT !.hands = main_hands(db, u)]
    /\ tx' = db
    /\ UNCHANGED <<db, last, ptr, inc, imported, cc, call>>

\* The body of 'for hand_id, game_id, source_file, raw_text in hands'.
main_hand(c, t, u, counters, h) ==
    LET r == process_hand(t, u, h.id, Text(h.raw_text)) IN
    IF r.err
    THEN LET rb == Rollback(c, r.db) IN
         [db |-> rb.db, tx |-> rb.tx,
          counters |-> [counters EXCEPT !.errors = @ + 1]]
    ELSE LET cm == Commit(c, Mark(r.db, h.id, h.raw_text, "xml")) IN
         [db |-> cm.db, tx |-> cm.tx,
          counters |-> [counters EXCEPT !.parsed_hands = @ + 1]]

MainHand ==
    /\ pc = "main" /\ mainr.hands # <<>>
    /\ \E r \in {main_hand(db, tx, user, mainr, Head(mainr.hands))} :
       /\ db' = r.db /\ tx' = r.tx
       /\ mainr' = [r.counters EXCEPT !.hands = Tail(@)]
    /\ UNCHANGED <<pc, user, ops, last, ptr, inc, imported, cc, call>>

MainDone ==
    /\ pc = "main" /\ mainr.hands = <<>>
    /\ pc' = "main_done"
    /\ tx' = Commit(db, tx).tx /\ db' = Commit(db, tx).db
    /\ UNCHANGED <<user, ops, last, ptr, mainr, inc, imported, cc, call>>

\* ------------------------------------------- parse_ipoker_v1_incremental
DefaultOffset == 0      \* --offset default

\* A selection that leaves out the NOT EXISTS condition.
unparsed_hands_any(d, user_id) ==
    {r \in d.hands : r.user_id = user_id}

unparsed_hands(d, user_id) ==
    {r \in d.hands : r.user_id = user_id /\ d.hand_players[r.id] = {}}

fetch_unparsed_hands(d, user_id, limit, offset) ==
    LimitOffset(OrderById(unparsed_hands(d, user_id)), limit, offset)

Min(a, b) == IF a < b THEN a ELSE b

StartInc(u, limit) ==
    /\ pc = "idle" /\ ops.runs < MaxRuns
    /\ unparsed_hands(db, u) # {}
    /\ pc' = "inc_loop" /\ user' = u /\ ops' = [ops EXCEPT !.runs = @ + 1]
    /\ inc' = [NoInc EXCEPT
                !.limit = limit,
                !.remaining = IF limit # None THEN limit[1]
                              ELSE Cardinality(unparsed_hands(db, u)),
                !.offset = DefaultOffset,
                !.pending = {r.id : r \in unparsed_hands(db, u)}]
    /\ tx' = db
    /\ UNCHANGED <<db, last, ptr, mainr, imported, cc, call>>

\* 'while remaining > 0': fetch the next batch, or leave the loop.
IncFetch ==
    /\ pc = "inc_loop"
    /\ LET hands == fetch_unparsed_hands(tx, user,
                        Min(BATCH_SIZE, inc.remaining), inc.offset) IN
       IF inc.remaining > 0 /\ hands # <<>>
       THEN /\ pc' = "inc_batch"
            /\ inc' = [inc EXCEPT !.hands = hands, !.i = 1]
            /\ tx' = tx
       ELSE /\ pc' = "inc_done"
            /\ inc' = inc
            /\ tx' = Rollback(db, tx).tx
    /\ UNCHANGED <<db, user, ops, last, ptr, mainr, imported, cc, call>>

\* The body of 'for h in hands'.
inc_hand(c, t, u, counters, h) ==
    LET r == process_hand_incremental(t, u, h.id, Text(h.raw_text)) IN
    IF r.err
    THEN [tx |-> Rollback(c, r.db).tx,
          counters |-> [counters EXCEPT !.total_errors = @ + 1]]
    ELSE [tx |-> Mark(r.db, h.id, h.raw_text, "xml"),
          counters |-> [counters EXCEPT !.total_parsed = @ + 1]]

IncHand ==
    /\ pc = "inc_batch" /\ inc.i <= Len(inc.hands)
    /\ \E r \in {inc_hand(db, tx, user, inc, inc.hands[inc.i])} :
       /\ tx' = r.tx
       /\ inc' = [r.counters EXCEPT !.i = @ + 1]
    /\ UNCHANGED <<db, pc, user, ops, last, ptr, mainr, imported, cc, call>>

\* 'Commit batch': conn.commit(); remaining -= len(hands); offset = 0.
IncCommit ==
    /\ pc = "inc_batch" /\ inc.i > Len(inc.hands)
    /\ db' = Commit(db, tx).db /\ tx' = Commit(db, tx).tx
    /\ inc' = [inc EXCEPT !.remaining = @ - Len(inc.hands), !.offset = 0]
    /\ pc' = "inc_loop"
    /\ UNCHANGED <<user, ops, last, ptr, mainr, imported, cc, call>>

\* ------------------------------------------------------------ process end
Running == pc \in {"pt", "main", "inc_loop", "inc_batch"}
Finished == pc \in {"import_done", "pt_done", "main_done", "inc_done"}

\* The process is stopped while it runs: the connection closes without a
\* commit and no summary is reported.
Interrupt ==
    /\ Running
    /\ tx' = Rollback(db, tx).tx
    /\ pc' = "idle" /\ user' = 0
    /\ ptr' = NoPt /\ mainr' = NoMain /\ inc' = NoInc /\ last' = NoLast
    /\ UNCHANGED <<db, ops, imported, cc, call>>

\* The summary has been reported and the process ends.
Return ==
    /\ Finished
    /\ pc' = "idle" /\ user' = 0
    /\ ptr' = NoPt /\ mainr' = NoMain /\ inc' = NoInc /\ last' = NoLast
    /\ UNCHANGED <<db, tx, ops, imported, cc, call>>

\* All programs, run for the owners of ParseOwners.
Next ==
    \/ \E u \in ParseOwners,
          b \in Batches([g \in GameIds |-> BatchTexts(g)], MaxParseBatch) :
          ImportBatch(u, b)
    \/ \E u \in ParseOwners, g \in GameIds : \E t \in BatchTexts(g) :
          UpsertHandDemo(u, g, t)
    \/ \E u \in ParseOwners, n \in 0..MaxFiles : StartPt(u, n)
    \/ \E t \in PtTexts, m \in BOOLEAN : PtFile(t, m)
    \/ PtDone
    \/ \E u \in ParseOwners : StartMain(u)
    \/ MainHand
    \/ MainDone
    \/ \E u \in ParseOwners, l \in {None} \cup {Some(n) : n \in 1..MaxLimit} :
          StartInc(u, l)
    \/ IncFetch
    \/ IncHand
    \/ IncCommit
    \/ Interrupt
    \/ Return

Spec == Init /\ [][Next]_vars

\* Raw imports and the incremental driver, for every owner.
IncNext ==
    \/ \E u \in Owners,
          b \in Batches([g \in GameIds |-> BatchTexts(g)], MaxParseBatch) :
          ImportBatch(u, b)
    \/ \E u \in Owners, l \in {None} \cup {Some(n) : n \in 1..MaxLimit} :
          StartInc(u, l)
    \/ IncFetch
    \/ IncHand
    \/ IncCommit
    \/ Interrupt
    \/ Return

SpecInc == Init /\ [][IncNext]_vars

\* The raw import paths alone, for every owner.
ImportNext ==
    \/ \E u \in Owners,
          b \in Batches([g \in GameIds |-> ImportTexts(g)], MaxBatch) :
          ImportBatch(u, b)
    \/ \E u \in Owners, g \in GameIds : \E t \in ImportTexts(g) :
          UpsertHandDemo(u, g, t)
    \/ \E u \in Owners, n \in 0..MaxImportFiles : StartPt(u, n)
    \/ \E t \in PtTexts, m \in BOOLEAN : PtFile(t, m)
    \/ PtDone
    \/ Interrupt
    \/ Return

SpecImport == Init /\ [][ImportNext]_vars

\* import_pokertracker alone, on inboxes that also hold files of two hands.
PtFileTexts == PtTexts \cup {Key("PtConcat", g) : g \in GameIds}

PtNext ==
    \/ \E u \in Owners, n \in 0..MaxFiles : StartPt(u, n)
    \/ \E t \in PtFileTexts, m \in BOOLEAN : PtFile(t, m)
    \/ PtDone
    \/ Interrupt
    \/ Return

SpecPt == Init /\ [][PtNext]_vars


\* ------------------------------------- concurrent processes on one store
\* Two processes, each with its own connection (READ COMMITTED), run
\* import_folder and then a parse for one user name and one hand:
\* get_or_create_user, insert_hands_batch, upsert_player.  cc.rows are the
\* committed rows [t, id, key] of the tables users (key <<username>>), hands
\* (key <<user_id, game_id>>) and players (key <<user_id, screen_name>>);
\* cc.p[p].pend are the uncommitted rows of process p.  cc.unique says
\* whether the schema declares users.username UNIQUE (db/schema.sql is not
\* part of the sources; both schemas are explored).
UserNames == {"u", "v"}

CcRow(t, id, key) == [t |-> t, id |-> id, key |-> key]

\* Whether table t has a UNIQUE constraint on its key.
CcConstrained(c, t) == IF t = "users" THEN c.unique ELSE TRUE

CcCommitted(c, t, key) == {r \in c.rows : r.t = t /\ r.key = key}
\* The uncommitted rows of the other processes with that key.
CcOthersPending(c, p, t, key) ==
    {r \in UNION {c.p[q].pend : q \in Procs \ {p}} : r.t = t /\ r.key = key}

\* nextval of the table's serial id.
CcNewId(c, t) ==
    LET ids == {r.id : r \in {x \in c.rows \cup UNION {c.p[q].pend : q \in Procs}
                                  : x.t = t}}
    IN  IF ids = {} THEN 1 ELSE SetMax(ids) + 1

\* INSERT without ON CONFLICT: "error" is a unique violation, "wait" a
\* statement blocked on another transaction's uncommitted row of the key.
CcPlainInsert(c, p, t, key) ==
    IF CcConstrained(c, t) /\ CcCommitted(c, t, key) # {}
    THEN [outcome |-> "error", row |-> {}, id |-> None]
    ELSE IF CcConstrained(c, t) /\ CcOthersPending(c, p, t, key) # {}
    THEN [outcome |-> "wait", row |-> {}, id |-> None]
    ELSE [outcome |-> "ok", row |-> {CcRow(t, CcNewId(c, t), key)},
          id |-> Some(CcNewId(c, t))]

\* INSERT ... ON CONFLICT (key) DO UPDATE: a committed row of the key is
\* updated in place, an uncommitted one of another transaction is waited for.
CcUpsert(c, p, t, key) ==
    IF CcCommitted(c, t, key) # {}
    THEN [outcome |-> "ok", row |-> {},
          id |-> Some((CHOOSE r \in CcCommitted(c, t, key) : TRUE).id)]
    ELSE IF CcOthersPending(c, p, t, key) # {}
    THEN [outcome |-> "wait", row |-> {}, id |-> None]
    ELSE [outcome |-> "ok", row |-> {CcRow(t, CcNewId(c, t), key)},
          id |-> Some(CcNewId(c, t))]

\* conn.commit() of process p.
CcCommit(c, p, next_pc) ==
    [c EXCEPT !.rows = @ \cup c.p[p].pend, !.p[p].pend = {},
              !.p[p].pc = next_pc]

\* get_or_create_user: SELECT id FROM users WHERE username = %s.
CcSelectUser(p) ==
    /\ cc.p[p].pc = "select_user"
    /\ LET found == CcCommitted(cc, "users", <<cc.p[p].username>>) IN
       cc' = IF found # {}
             THEN [cc EXCEPT !.p[p].pc = "insert_hands",
                             !.p[p].user_id =
                                Some(SetMax({r.id : r \in found}))]
             ELSE [cc EXCEPT !.p[p].pc = "insert_user"]
    /\ UNCHANGED <<seqvars, call>>

\* get_or_create_user: INSERT INTO users ... RETURNING id.  A unique
\* violation leaves the function and ends the process.
CcInsertUser(p) ==
    /\ cc.p[p].pc = "insert_user"
    /\ LET r == CcPlainInsert(cc, p, "users", <<cc.p[p].username>>) IN
       /\ r.outcome # "wait"
       /\ cc' = IF r.outcome = "error"
                THEN [cc EXCEPT !.p[p].pc = "failed", !.p[p].pend = {}]
                ELSE [cc EXCEPT !.p[p].pc = "commit_user",
                                !.p[p].pend = r.row, !.p[p].user_id = r.id]
    /\ UNCHANGED <<seqvars, call>>

\* get_or_create_user: conn.commit().
CcCommitUser(p) ==
    /\ cc.p[p].pc = "commit_user"
    /\ cc' = CcCommit(cc, p, "insert_hands")
    /\ UNCHANGED <<seqvars, call>>

\* insert_hands_batch: the executemany for the process's hand.
CcInsertHands(p) ==
    /\ cc.p[p].pc = "insert_hands"
    /\ LET r == CcUpsert(cc, p, "hands",
                         <<cc.p[p].user_id[1], cc.p[p].game_id>>) IN
       /\ r.outcome = "ok"
       /\ cc' = [cc EXCEPT !.p[p].pc = "commit_hands", !.p[p].pend = r.row]
    /\ UNCHANGED <<seqvars, call>>

\* insert_hands_batch: conn.commit().
CcCommitHands(p) ==
    /\ cc.p[p].pc = "commit_hands"
    /\ cc' = CcCommit(cc, p, "upsert_player")
    /\ UNCHANGED <<seqvars, call>>

\* upsert_player of the parse of that hand.
CcUpsertPlayer(p) ==
    /\ cc.p[p].pc = "upsert_player"
    /\ LET r == CcUpsert(cc, p, "players", <<cc.p[p].user_id[1], "A">>) IN
       /\ r.outcome = "ok"
       /\ cc' = [cc EXCEPT !.p[p].pc = "commit_parse", !.p[p].pend = r.row]
    /\ UNCHANGED <<seqvars, call>>

\* The parse driver's conn.commit().
CcCommitParse(p) ==
    /\ cc.p[p].pc = "commit_parse"
    /\ cc' = CcCommit(cc, p, "done")
    /\ UNCHANGED <<seqvars, call>>

\* Each process is started for a user name and a game id; the store holds
\* no row or the user "u".
InitConc ==
    /\ db = EmptyDb /\ tx = EmptyDb
    /\ pc = "idle" /\ user = 0 /\ ops = [imports |-> 0, runs |-> 0]
    /\ last = NoLast /\ ptr = NoPt /\ mainr = NoMain /\ inc = NoInc
    /\ imported = {} /\ call = NoCall
    /\ \E uq \in BOOLEAN, rows \in {{}, {CcRow("users", 1, <<"u">>)}},
          names \in [Procs -> UserNames], games \in [Procs -> GameIds] :
          cc = [unique |-> uq, rows |-> rows,
                p |-> [q \in Procs |->
                        [NoProc EXCEPT !.pc = "select_user",
                                       !.username = names[q],
                                       !.game_id = games[q]]]]

ConcNext ==
    \/ \E p \in Procs : CcSelectUser(p)
    \/ \E p \in Procs : CcInsertUser(p)
    \/ \E p \in Procs : CcCommitUser(p)
    \/ \E p \in Procs : CcInsertHands(p)
    \/ \E p \in Procs : CcCommitHands(p)
    \/ \E p \in Procs : CcUpsertPlayer(p)
    \/ \E p \in Procs : CcCommitParse(p)

SpecConc == InitConc /\ [][ConcNext]_vars

\* ------------------------------------------- splitting a file into hands
\* A file is its suffix and its content.  A text content is a sequence of
\* lines: a line 'GAME #<id> ...' (indent: whitespace before GAME), a line
\* of other text, or a blank line.  An XML content is a document: whether
\* it is well formed, its root tag and the gamecode of each child <game> of
\* the root (0: no gamecode attribute, or a blank one).
MaxLines == 3           \* most lines of a text content
MaxGames == 2           \* most <game> children of the root

TGame(id, indent) == [k |-> "game", id |-> id, indent |-> indent]
TOther == [k |-> "other", id |-> 0, indent |-> FALSE]
TBlank == [k |-> "blank", id |-> 0, indent |-> FALSE]

TextContent(lines) == [fmt |-> "text", lines |-> lines]
\* The values of a document that the session tokenizer copies into the
\* <hand> wrapper: the sessioncode attribute of the root and the texts of
\* five children of ./general, as ET.fromstring gives them ("" when absent).
\* A <game> of a document is named by its gamecode.
MetaKeys == {"sessioncode", "nickname", "tablename", "tournamentcode",
             "tournamentname", "startdate"}
\* Values that hold a double quote, & or <.
XmlSpecial == {"A&B", "x<y", "say \"hi\""}
NoMeta == [k \in MetaKeys |-> ""]
XmlContent(wellformed, root, games) ==
    [fmt |-> "xml", wellformed |-> wellformed, root |-> root, games |-> games,
     meta |-> NoMeta]
SessionContent(meta, games) ==
    [XmlContent(TRUE, "session", games) EXCEPT !.meta = meta]

\* The wrapper is an f-string: a value goes between double quotes as it is,
\* and the text is XML only when no value holds a double quote, & or <.
wrapper_wellformed(meta) == \A k \in MetaKeys : meta[k] \notin XmlSpecial

\* ET.fromstring of a stored text, as extract_game_from_raw_xml reads it.
et_fromstring(content) ==
    IF content.fmt = "xml" /\ content.wellformed
    THEN XmlDoc(content.root, content.games)
    ELSE TextContent(<<>>)
File(suffix, content) == [suffix |-> suffix, content |-> content]

\* The lines of a content as the regular expressions see them: a document
\* has no line that starts with GAME.
content_lines(content) ==
    IF content.fmt = "text" THEN content.lines ELSE <<TOther>>

\* '^GAME\s+#\d+' with re.MULTILINE matches at the start of line i.
header_at(lines, i) == lines[i].k = "game" /\ ~lines[i].indent

\* re.split(r"(?=^GAME\s+#\d+)", content, flags=re.MULTILINE): the text
\* before the first match, then one piece from each match to the next.
txt_split(lines) ==
    LET f[i \in 0..Len(lines)] ==
            IF i = 0 THEN << <<>> >>
            ELSE IF header_at(lines, i) THEN Append(f[i-1], <<lines[i]>>)
            ELSE [f[i-1] EXCEPT ![Len(f[i-1])] = Append(@, lines[i])]
    IN  f[Len(lines)]

\* str.strip(): the blank lines at both ends go, and the whitespace before
\* the first character that is left.
strip(block) ==
    LET full == {i \in DOMAIN block : block[i].k # "blank"} IN
    IF full = {} THEN <<>>
    ELSE LET a == CHOOSE i \in full : \A j \in full : i <= j
             b == CHOOSE i \in full : \A j \in full : j <= i
             t == SubSeq(block, a, b)
         IN  [t EXCEPT ![1].indent = FALSE]

\* re.match(r"^GAME\s+#(\d+)", hand_text): the text begins with a header.
starts_with_header(hand_text) ==
    hand_text # <<>> /\ hand_text[1].k = "game" /\ ~hand_text[1].indent

\* parse_hands_from_txt of import_ipoker_folder.
parse_hands_from_txt(content) ==
    LET hands_raw == txt_split(content_lines(content))
        f[i \in 0..Len(hands_raw)] ==
            IF i = 0 THEN <<>>
            ELSE LET hand_text == strip(hands_raw[i]) IN
                 IF hand_text = <<>> THEN f[i-1]
                 ELSE IF ~starts_with_header(hand_text) THEN f[i-1]
                 ELSE Append(f[i-1], [game_id |-> hand_text[1].id,
                                      raw_text |-> TextContent(hand_text)])
    IN  f[Len(hands_raw)]

\* parse_hands_from_file and extract_game_id of insert_raw_hand_demo:
\* pattern.finditer, one hand from each match to the next.
demo_parse_hands_from_file(content) ==
    LET lines   == content_lines(content)
        matches == {i \in DOMAIN lines : header_at(lines, i)}
        end(i)  == IF \E j \in matches : j > i
                   THEN (CHOOSE j \in matches :
                            j > i /\ \A m \in matches : m > i => j <= m) - 1
                   ELSE Len(lines)
        f[i \in 0..Len(lines)] ==
            IF i = 0 THEN <<>>
            ELSE IF i \notin matches THEN f[i-1]
            ELSE LET hand_text == strip(SubSeq(lines, i, end(i))) IN
                 IF hand_text = <<>> THEN f[i-1]
                 ELSE Append(f[i-1],
                        [game_id |-> IF starts_with_header(hand_text)
                                     THEN Some(hand_text[1].id) ELSE None,
                         raw_text |-> TextContent(hand_text)])
    IN  f[Len(lines)]

\* parse_hands_from_champion_xml: ET.fromstring, the root tag, then one
\* <hand source="champion_xml" ...> wrapper for each <game> with a gamecode.
parse_hands_from_champion_xml(content) ==
    IF content.fmt # "xml" \/ ~content.wellformed THEN <<>>
    ELSE IF content.root # "session" THEN <<>>
    ELSE LET games == content.games
             f[i \in 0..Len(games)] ==
                 IF i = 0 THEN <<>>
                 ELSE IF games[i] = 0 THEN f[i-1]
                 ELSE Append(f[i-1],
                        [game_id |-> games[i],
                         raw_text |->
                             [XmlContent(wrapper_wellformed(content.meta),
                                         "hand", <<games[i]>>)
                                 EXCEPT !.meta = content.meta]])
         IN  f[Len(games)]

\* parse_hands_from_file of import_ipoker_folder.
parse_hands_from_file(file) ==
    LET hands_xml ==
            IF file.suffix = ".xml" \/ file.content.fmt = "xml"
            THEN parse_hands_from_champion_xml(file.content)
            ELSE <<>>
    IN  IF hands_xml # <<>> THEN hands_xml
        ELSE parse_hands_from_txt(file.content)

\* The contents the calls are made on.
LineTokens == {TGame(g, b) : g \in GameIds, b \in BOOLEAN} \cup {TOther, TBlank}
RECURSIVE SeqsUpTo(_, _)
SeqsUpTo(S, n) ==
    IF n = 0 THEN {<<>>}
    ELSE LET shorter == SeqsUpTo(S, n - 1) IN
         shorter \cup {Append(q, x) : q \in shorter, x \in S}
TextContents == {TextContent(l) : l \in SeqsUpTo(LineTokens, MaxLines)}
XmlContents ==
    {XmlContent(w, r, g) : w \in BOOLEAN, r \in {"session", "game", "hand"},
                           g \in SeqsUpTo(0..NumGames, MaxGames)}
\* Session metadata: nothing, a plain value everywhere, or one value with
\* a special character.
Metas ==
    {NoMeta, [k \in MetaKeys |-> "Hero"]} \cup
    {[[k \in MetaKeys |-> "Hero"] EXCEPT ![key] = v] :
        key \in MetaKeys, v \in XmlSpecial}
SessionContents ==
    {SessionContent(m, g) : m \in Metas \ {NoMeta},
                            g \in SeqsUpTo(0..NumGames, MaxGames)}
Files == {File(sfx, c) : sfx \in {".txt", ".xml"},
                         c \in TextContents \cup XmlContents \cup SessionContents}

InitSplit ==
    /\ db = EmptyDb /\ tx = EmptyDb
    /\ pc = "idle" /\ user = 0 /\ ops = [imports |-> 0, runs |-> 0]
    /\ last = NoLast /\ ptr = NoPt /\ mainr = NoMain /\ inc = NoInc
    /\ imported = {} /\ cc = NoCc
    /\ \E file \in Files : call = [NoCall EXCEPT !.arg = file]

CallParseHandsFromTxt ==
    /\ call.fn = ""
    /\ call' = [call EXCEPT !.fn = "parse_hands_from_txt",
                            !.ret = parse_hands_from_txt(call.arg.content)]
    /\ UNCHANGED <<seqvars, cc>>

CallDemoParseHandsFromFile ==
    /\ call.fn = ""
    /\ call' = [call EXCEPT !.fn = "demo_parse_hands_from_file",
                            !.ret = demo_parse_hands_from_file(call.arg.content)]
    /\ UNCHANGED <<seqvars, cc>>

CallParseHandsFromChampionXml ==
    /\ call.fn = ""
    /\ call' = [call EXCEPT !.fn = "parse_hands_from_champion_xml",
                            !.ret = parse_hands_from_champion_xml(call.arg.content)]
    /\ UNCHANGED <<seqvars, cc>>

CallParseHandsFromFile ==
    /\ call.fn = ""
    /\ call' = [call EXCEPT !.fn = "parse_hands_from_file",
                            !.ret = parse_hands_from_file(call.arg)]
    /\ UNCHANGED <<seqvars, cc>>

SplitNext ==
    \/ CallParseHandsFromTxt
    \/ CallDemoParseHandsFromFile
    \/ CallParseHandsFromChampionXml
    \/ CallParseHandsFromFile

SpecSplit == InitSplit /\ [][SplitNext]_vars

\* ------------------------------------------------ parse_actions on a <game>
\* The <game> elements the call is made on: MaxRounds rounds, numbered as
\* RoundNos gives, each with up to MaxRoundActions <action> elements whose
\* no attribute is missing, 1, 2 or a number above 10**9.
MaxRounds == 2
MaxRoundActions == 2

ActionNos == {None, Some(1), Some(2), Some(NoNumberKey + 1)}
ActionEls == {XAct(no, player, 0, Some(3)) : no \in ActionNos, player \in {"A", "B"}}
RoundNos == {<<1, 2>>, <<2, 1>>, <<1, 1>>}
ActionGames ==
    {XGame(FALSE, <<>>,
           [i \in 1..MaxRounds |-> XRound(Some(nos[i]), <<>>, acts[i])]) :
        nos \in RoundNos,
        acts \in [1..MaxRounds -> SeqsUpTo(ActionEls, MaxRoundActions)]}

InitActions ==
    /\ db = EmptyDb /\ tx = EmptyDb
    /\ pc = "idle" /\ user = 0 /\ ops = [imports |-> 0, runs |-> 0]
    /\ last = NoLast /\ ptr = NoPt /\ mainr = NoMain /\ inc = NoInc
    /\ imported = {} /\ cc = NoCc
    /\ \E g \in ActionGames : call = [NoCall EXCEPT !.arg = g]

CallParseActions ==
    /\ call.fn = ""
    /\ call' = [call EXCEPT !.fn = "parse_actions",
                            !.ret = parse_actions(call.arg)]
    /\ UNCHANGED <<seqvars, cc>>

ActionsNext == CallParseActions

SpecActions == InitActions /\ [][ActionsNext]_vars

\* ------------------------------------------------- the parsers as functions
\* The parsers are called on an argument [kind, v]; call.ret is what the
\* call returned.  PokerTracker texts: a first line (none, a line that is no
\* header, a header), up to two seat lines, up to MaxPreLines lines
\* '<name>: <text>' before the summary banner and up to MaxWinLines 'wins'
\* lines after it.  X is a name that has no seat line.
MaxPreLines == 2
MaxWinLines == 2

Arg(kind, v) == [kind |-> kind, v |-> v]

PreLines == {PColon(n, verb, a, FALSE) :
                n \in {"A", "X"}, verb \in {"Post SB", "Fold", "Shows"},
                a \in {None, Some(1)}}
WinLines == {PColon(n, "wins", Some(2), FALSE) : n \in {"A", "B"}}
ParseTexts ==
    {PtText(head \o seats \o pre \o <<PSummary>> \o post) :
        head \in {<<>>, <<POther>>, <<PGame(1)>>},
        seats \in {<<>>, <<PSeat(1, "A", 100, TRUE)>>,
                   <<PSeat(1, "A", 100, TRUE), PSeat(2, "B", 100, FALSE)>>},
        pre \in SeqsUpTo(PreLines, MaxPreLines),
        post \in SeqsUpTo(WinLines, MaxWinLines)}

\* A monetary text: a currency glyph ("" for none), whether it has
\* thousands-separator commas, and what remains without them: nothing, text
\* that is no decimal ("." or "1.2.3"), or the decimal v.  NoText is a
\* missing attribute (None).
MaxMoney == 12

MoneyText(glyph, comma, body) == [glyph |-> glyph, comma |-> comma, body |-> body]
NoBody == [k |-> "none", v |-> 0]
BadBody == [k |-> "bad", v |-> 0]
NumBody(v) == [k |-> "num", v |-> v]
NoText == [glyph |-> "", comma |-> FALSE, body |-> [k |-> "missing", v |-> 0]]

\* Decimal(s): the decimal, None for InvalidOperation.
decimal_of(glyph, body) ==
    IF glyph = "" /\ body.k = "num" THEN Some(body.v) ELSE None

\* parse_decimal of parse_ipoker_v1: s.replace(",", "").
xml_parse_decimal(value) ==
    IF value.body.k = "missing" THEN None
    ELSE IF value.glyph = "" /\ ~value.comma /\ value.body.k = "none" THEN None
    ELSE decimal_of(value.glyph, value.body)

\* parse_decimal of parse_pokertracker_ipoker:
\* s.replace("\u20ac", "").replace("$", "").replace(",", "").strip().
pt_parse_decimal(value) ==
    IF value.body.k = "missing" THEN None
    ELSE IF value.glyph = "" /\ ~value.comma /\ value.body.k = "none" THEN None
    ELSE decimal_of("", value.body)

MoneyTexts ==
    {MoneyText(g, c, b) : g \in {"", "EUR", "$"}, c \in BOOLEAN,
        b \in {NoBody, BadBody} \cup {NumBody(v) : v \in 0..MaxMoney}}

\* A line '<name>: <text>' as the scanner's regular expressions read it:
\* the words the text starts with, the matches of [\u20ac$\d.,]+ in the text
\* in their order (each a monetary text), and whether the text has an
\* all-in marker.
PLine(name, verb, runs, allin) ==
    [name |-> name, verb |-> verb, runs |-> runs, allin |-> allin]

\* re.search(r'([\u20ac$\d.,]+)', action_text) and parse_decimal(...) or
\* Decimal(0): None when nothing matches.
pt_amount(runs) ==
    IF runs = <<>> THEN None
    ELSE IF pt_parse_decimal(runs[1]) = None THEN Some(0)
    ELSE pt_parse_decimal(runs[1])

\* The line as the scanner's loop takes it: texts that start with 'Seat' or
\* 'Total pot' are skipped before a number is handed out.
pt_colon(line) ==
    IF line.verb \in {"Seat", "Total pot"} THEN POther
    ELSE PColon(line.name, line.verb, pt_amount(line.runs), line.allin)

\* The actions one line gives in street `street`.
pt_line_actions(street, line) ==
    pt_scan_line([street |-> street, action_no |-> 0, actions |-> <<>>,
                  invested |-> [n \in {line.name} |-> 0],
                  streets |-> [x \in Range(STREETS) |-> Null],
                  stop |-> FALSE, err |-> FALSE],
                 pt_colon(line)).actions

MaxAmountRuns == 2           \* most matches of the amount pattern in a line
LineVerbs == {"Post SB", "Post BB", "Post Ante", "Fold", "Check", "Call",
              "Bet", "Raise", "Shows", "Seat"}
RunTexts == {MoneyText("EUR", FALSE, NoBody), MoneyText("", TRUE, NoBody),
             MoneyText("", FALSE, BadBody), MoneyText("EUR", FALSE, NumBody(5)),
             MoneyText("", TRUE, NumBody(7))}
ScanLines ==
    {[street |-> st, line |-> PLine("P1", verb, runs, allin)] :
        st \in Range(STREETS), verb \in LineVerbs,
        runs \in SeqsUpTo(RunTexts, MaxAmountRuns), allin \in BOOLEAN}

MaxTypeCode == 24       \* largest numeric type code given to map_action_type
\* None: the attribute is missing or int() rejects its text.
TypeCodes == {None} \cup {Some(n) : n \in 0..MaxTypeCode}

FnArgs ==
    {Arg("type_code", [code |-> c]) : c \in TypeCodes} \cup
    {Arg("pt_line", l) : l \in ScanLines} \cup
    {Arg("pt_text", t) : t \in ParseTexts \cup {PtText(<<>>)}}
    \cup {Arg("money", t) : t \in MoneyTexts \cup {NoText}}

InitFn ==
    /\ db = EmptyDb /\ tx = EmptyDb
    /\ pc = "idle" /\ user = 0 /\ ops = [imports |-> 0, runs |-> 0]
    /\ last = NoLast /\ ptr = NoPt /\ mainr = NoMain /\ inc = NoInc
    /\ imported = {} /\ cc = NoCc
    /\ \E a \in FnArgs : call = [NoCall EXCEPT !.arg = a]

CallParsePokertracker ==
    /\ call.fn = "" /\ call.arg.kind = "pt_text"
    /\ call' = [call EXCEPT !.fn = "parse_pokertracker_ipoker",
                            !.ret = parse_pokertracker_ipoker(call.arg.v)]
    /\ UNCHANGED <<seqvars, cc>>

CallXmlParseDecimal ==
    /\ call.fn = "" /\ call.arg.kind = "money"
    /\ call' = [call EXCEPT !.fn = "xml_parse_decimal",
                            !.ret = xml_parse_decimal(call.arg.v)]
    /\ UNCHANGED <<seqvars, cc>>

CallPtParseDecimal ==
    /\ call.fn = "" /\ call.arg.kind = "money"
    /\ call' = [call EXCEPT !.fn = "pt_parse_decimal",
                            !.ret = pt_parse_decimal(call.arg.v)]
    /\ UNCHANGED <<seqvars, cc>>

CallPtScanLine ==
    /\ call.fn = "" /\ call.arg.kind = "pt_line"
    /\ call' = [call EXCEPT !.fn = "pt_scan_line",
                            !.ret = pt_line_actions(call.arg.v.street,
                                                    call.arg.v.line)]
    /\ UNCHANGED <<seqvars, cc>>

CallMapActionType ==
    /\ call.fn = "" /\ call.arg.kind = "type_code"
    /\ call' = [call EXCEPT !.fn = "map_action_type",
                            !.ret = map_action_type(call.arg.v.code)]
    /\ UNCHANGED <<seqvars, cc>>

FnNext ==
    \/ CallParsePokertracker
    \/ CallMapActionType
    \/ CallPtScanLine
    \/ CallXmlParseDecimal
    \/ CallPtParseDecimal

SpecFn == InitFn /\ [][FnNext]_vars

\* ------------------------------------------------------------- properties
OwnerRows(d, u) == {r \in d.hands : r.user_id = u}
HandOf(d, h) == CHOOSE r \in d.hands : r.id = h

\* The child rows of hand h.
ChildRows(d, h) ==
    [hand_players |-> d.hand_players[h], streets |-> d.streets[h],
     actions |-> d.actions[h], hand_results |-> d.hand_results[h],
     hand_sizes |-> d.hand_sizes[h]]

NoChildRows ==
    [hand_players |-> {}, streets |-> {}, actions |-> <<>>,
     hand_results |-> <<>>, hand_sizes |-> {}]

\* Store d without the child rows of hand h.
ClearHand(d, h) ==
    [d EXCEPT !.hand_players[h] = {}, !.streets[h] = {}, !.actions[h] = <<>>,
              !.hand_results[h] = <<>>, !.hand_sizes[h] = {}]

\* The store after one more parse of hand h from payload p by p's path.
Reparse(d, h, p) ==
    LET u == HandOf(d, h).user_id IN
    IF p.path = "xml" THEN process_hand(d, u, h, Text(p.raw_text)).db
    ELSE store_parsed_hand(d, u, h,
            parse_pokertracker_ipoker(Text(p.raw_text)).val).db

\* The payload parses and stores without an exception.
ParsesOk(raw_text) ==
    ~process_hand_incremental(EmptyDb, 1, 1, Text(raw_text)).err

\* C1: in every committed state there is at most one hands row per
\* (owner, game_id), and each owner has as many rows as distinct game_ids
\* were imported for that owner, however often and by whichever import path
\* (insert_hands_batch, upsert_hand, import_pokertracker) each was imported.
C1Theorem ==
    /\ \A r1 \in db.hands, r2 \in db.hands :
          (r1.user_id = r2.user_id /\ r1.game_id = r2.game_id) => r1 = r2
    /\ \A u \in Owners :
          Cardinality(OwnerRows(db, u)) =
          Cardinality({k \in imported : k[1] = u})

\* Two imports and a PokerTracker file of one and the same (owner, game_id).
C1Witness ==
    /\ pc = "pt_done" /\ ptr.duplicates_skipped = 1
    /\ ops.imports = 2 /\ Cardinality(db.hands) = 1

\* C2: every import reports as newly inserted exactly the rows it created:
\* the inserted count of insert_hands_batch is the number of hands rows the
\* batch added, and a file import_pokertracker counts under imported_ok
\* added a row (a file whose hand is stored is counted as a duplicate).
C2Claim ==
    [][ /\ (pc = "idle" /\ pc' = "import_done") =>
              last'.inserted = Cardinality(db'.hands) - Cardinality(db.hands)
        /\ (pc = "pt" /\ pc' = "pt" /\ ptr'.imported_ok > ptr.imported_ok) =>
              Cardinality(db'.hands) = Cardinality(db.hands) + 1
      ]_vars

\* C3: for every parsed hand the stored actions carry the action_no values
\* 1..N, N the number of its stored actions, without gap or repeat.
C3Claim ==
    \A h \in HandIds :
        db.parsed_from[h] # None =>
            /\ {db.actions[h][i].action_no : i \in DOMAIN db.actions[h]} =
               1..Len(db.actions[h])
            /\ \A i, j \in DOMAIN db.actions[h] :
                  db.actions[h][i].action_no = db.actions[h][j].action_no
                      => i = j

\* C4: parsing a hand again whose rows were written from its present
\* raw_text leaves its hand_players, streets, actions, hand_results and
\* hand_sizes rows as they are (process_hand and store_parsed_hand).
C4Theorem ==
    \A h \in HandIds :
        (/\ db.parsed_from[h] # None
         /\ HandOf(db, h).raw_text = db.parsed_from[h][1].raw_text)
        => ChildRows(Reparse(db, h, db.parsed_from[h][1]), h) = ChildRows(db, h)

\* main is about to parse a hand it has parsed from the same raw_text.
C4Witness ==
    /\ pc = "main" /\ mainr.hands # <<>>
    /\ LET h == Head(mainr.hands) IN
       /\ db.parsed_from[h.id] = Some([raw_text |-> h.raw_text, path |-> "xml"])
       /\ db.actions[h.id] # <<>> /\ db.hand_results[h.id] # <<>>

\* C5: every hand_players row of a parsed hand has exactly one hand_results
\* row of the same hand and player.
C5Claim ==
    \A h \in HandIds :
        db.parsed_from[h] # None =>
            \A hp \in db.hand_players[h] :
                Cardinality({i \in DOMAIN db.hand_results[h] :
                    db.hand_results[h][i].player_id = hp.player_id}) = 1

\* C6: after a parse of hand h from a payload, the hand_players, streets,
\* actions and hand_results rows of h are those a parse of that payload
\* alone gives: no row of an earlier payload remains.
C6Claim ==
    \A h \in HandIds :
        db.parsed_from[h] # None =>
            LET fresh == ChildRows(Reparse(ClearHand(db, h), h,
                                           db.parsed_from[h][1]), h)
            IN  /\ db.hand_players[h] = fresh.hand_players
                /\ db.streets[h] = fresh.streets
                /\ db.actions[h] = fresh.actions
                /\ db.hand_results[h] = fresh.hand_results

\* C7: when the incremental driver has committed a batch, every hand of the
\* batch that parses without an exception has its rows committed, whether
\* or not another hand of the batch raised.
C7Claim ==
    (pc = "inc_loop" /\ inc.hands # <<>>) =>
        \A i \in DOMAIN inc.hands :
            ParsesOk(inc.hands[i].raw_text) => db.streets[inc.hands[i].id] # {}

\* C8: when an incremental run without --limit has ended, every hand that
\* was unparsed at its start and parses without an exception has its rows
\* committed.
C8Claim ==
    (pc = "inc_done" /\ inc.limit = None) =>
        \A h \in inc.pending :
            ParsesOk(HandOf(db, h).raw_text) => db.streets[h] # {}

\* C9: in every committed state each hand has either no child rows or the
\* complete rows of one parse: the streets, actions and hand_results (and
\* for import_pokertracker the hand_sizes row) of that parse and a
\* hand_players row for each of its players, any further hand_players row
\* being one of another player.
C9Theorem ==
    \A h \in HandIds :
        IF db.parsed_from[h] = None THEN ChildRows(db, h) = NoChildRows
        ELSE LET p == db.parsed_from[h][1]
                 fresh == ChildRows(Reparse(ClearHand(db, h), h, p), h)
             IN  /\ db.streets[h] = fresh.streets
                 /\ db.actions[h] = fresh.actions
                 /\ db.hand_results[h] = fresh.hand_results
                 /\ p.path = "pt" => db.hand_sizes[h] = fresh.hand_sizes
                 /\ fresh.hand_players \subseteq db.hand_players[h]
                 /\ \A r \in db.hand_players[h] \ fresh.hand_players :
                       \A q \in fresh.hand_players : q.player_id # r.player_id

\* main has failed on a parsed hand whose raw_text now names a player twice:
\* the exception came after writes, and the hand has the rows it had before.
C9Witness ==
    /\ pc = "main_done" /\ mainr.errors >= 1
    /\ \E r \in db.hands :
          /\ r.user_id = user /\ r.raw_text = Key("GameDup", 0)
          /\ db.parsed_from[r.id] # None /\ db.actions[r.id] # <<>>

\* C10: in the summary of import_pokertracker every scanned file is counted
\* once: scanned_files = imported_ok + duplicates_skipped + failed_files.
C10Claim ==
    pc \in {"pt", "pt_done"} =>
        ptr.scanned_files =
            ptr.imported_ok + ptr.duplicates_skipped + ptr.failed_files

\* C11: when two processes create the same user name, the same
\* (owner, game_id) hand or the same (owner, screen_name) player
\* concurrently, no process fails with a unique violation and the store
\* holds exactly one row per key.
C11Claim ==
    /\ \A p \in Procs : cc.p[p].pc # "failed"
    /\ \A r1 \in cc.rows, r2 \in cc.rows :
          (r1.t = r2.t /\ r1.key = r2.key) => r1 = r2

\* The screen names of the payloads.
ScreenNames == {"A", "B", "C"}

\* C12: at every store the program reaches, upsert_player gives one id for
\* one (owner, screen_name) however often it is called, adds a players row
\* at the first call only and none when the name is stored; the store never
\* holds two rows of one (owner, screen_name), and no step removes a
\* committed players row.
C12Theorem ==
    [][ /\ \A r \in db.players : r \in db'.players
        /\ \A r1 \in tx'.players, r2 \in tx'.players :
              (r1.user_id = r2.user_id /\ r1.screen_name = r2.screen_name)
                  => r1 = r2
        /\ \A u \in Owners, n \in ScreenNames :
              LET first  == upsert_player(tx', u, n)
                  second == upsert_player(first.db, u, n)
              IN  /\ second = first
                  /\ PlayerRow(first.db, u, n) =
                        {[id |-> first.id, user_id |-> u, screen_name |-> n]}
                  /\ PlayerRow(tx', u, n) # {} => first.db = tx'
      ]_vars

\* A committed player sits in two parsed hands under one id.
C12Witness ==
    \E r \in db.players :
        Cardinality({h \in HandIds :
            \E hp \in db.hand_players[h] : hp.player_id = r.id}) >= 2

\* C13: every parsed hand has exactly four streets rows, one for each of
\* preflop, flop, turn and river, a street without board cards included, in
\* the committed store and in the open transaction, however often the hand
\* was parsed.
C13Theorem ==
    \A h \in HandIds : \A d \in {db, tx} :
        d.parsed_from[h] # None =>
            /\ Cardinality(d.streets[h]) = 4
            /\ {r.street : r \in d.streets[h]} = Range(STREETS)

\* A hand parsed from GameAB and then from GameAC: three hand_players rows,
\* and streets without a board.
C13Witness ==
    \E h \in HandIds :
        /\ db.parsed_from[h] = Some([raw_text |-> Key("GameAC", 0), path |-> "xml"])
        /\ Cardinality(db.hand_players[h]) = 3
        /\ \E r \in db.streets[h] : r.board = Null

\* C14: every parsed hand, of the XML dialect or the PokerTracker dialect,
\* has exactly one hand_sizes row, and for a PokerTracker hand its
\* player_count is the table size the parser read.
C14Claim ==
    \A h \in HandIds :
        db.parsed_from[h] # None =>
            /\ Cardinality(db.hand_sizes[h]) = 1
            /\ db.parsed_from[h][1].path = "pt" =>
                  \A r \in db.hand_sizes[h] : r.player_count =
                      parse_pokertracker_ipoker(
                          Text(db.parsed_from[h][1].raw_text)).val.table_size

\* The parser of the payload's dialect finds no player in it.
NoPlayerFound(raw_text) ==
    IF Text(raw_text).fmt = "xml"
    THEN LET g == extract_game_from_raw_xml(Text(raw_text)) IN
         ~g.err /\ parse_players(g.val) = <<>>
    ELSE pt_players(pt_lines(Text(raw_text))) = <<>>

\* C15: a hand in which no player is found is a parse failure of that hand
\* in each dialect: the drivers count it under errors / failed and not as
\* parsed, the step commits nothing, and no hand has rows written from such
\* a payload.
C15Claim ==
    [][ /\ (/\ pc = "main" /\ mainr.hands # <<>>
             /\ mainr'.hands = Tail(mainr.hands)
             /\ NoPlayerFound(Head(mainr.hands).raw_text))
            => /\ mainr'.errors = mainr.errors + 1
               /\ mainr'.parsed_hands = mainr.parsed_hands
               /\ db' = db
        /\ (/\ pc = "inc_batch" /\ pc' = "inc_batch"
             /\ inc.i <= Len(inc.hands) /\ inc'.i = inc.i + 1
             /\ NoPlayerFound(inc.hands[inc.i].raw_text))
            => /\ inc'.total_errors = inc.total_errors + 1
               /\ inc'.total_parsed = inc.total_parsed
        /\ \A h \in HandIds :
              db'.parsed_from[h] # None =>
                  ~NoPlayerFound(db'.parsed_from[h][1].raw_text)
      ]_vars

\* C16: parse_hands_from_file on a well-formed XML document gives, for a
\* root <game>, exactly one hand, the document itself, and for a root
\* <session> one hand for each child <game> that has a gamecode, in
\* document order with that gamecode as id.
C16Claim ==
    (/\ call.fn = "parse_hands_from_file"
     /\ call.arg.content.fmt = "xml" /\ call.arg.content.wellformed)
    => LET c == call.arg.content
           coded == SelectSeq(c.games, LAMBDA g : g # 0)
       IN  /\ c.root = "game" =>
                 /\ Len(call.ret) = 1
                 /\ call.ret[1].raw_text = c
           /\ c.root = "session" =>
                 /\ Len(call.ret) = Len(coded)
                 /\ \A i \in DOMAIN coded : call.ret[i].game_id = coded[i]

\* The lines of a text content that start with GAME #<digits>.
HeaderLines(lines) == SelectSeq([i \in DOMAIN lines |-> i],
                                LAMBDA i : header_at(lines, i))

\* C17: parse_hands_from_txt gives one hand for each line of the content
\* that starts with GAME #<digits>, in file order, with those digits as id
\* and as text the lines from that header up to the next one; the text
\* before the first such line gives no hand.
C17Claim ==
    (call.fn = "parse_hands_from_txt" /\ call.arg.content.fmt = "text")
    => LET lines == call.arg.content.lines
           hs == HeaderLines(lines)
           next(n) == IF n < Len(hs) THEN hs[n + 1] - 1 ELSE Len(lines)
       IN  /\ Len(call.ret) = Len(hs)
           /\ \A n \in DOMAIN hs :
                 /\ call.ret[n].game_id = lines[hs[n]].id
                 /\ call.ret[n].raw_text =
                       TextContent(strip(SubSeq(lines, hs[n], next(n))))

\* The lines of a PokerTracker text from its header number n (1, 2, ...) up
\* to the next header.
PtBlock(lines, n) ==
    LET hs == SelectSeq([i \in DOMAIN lines |-> i],
                        LAMBDA i : lines[i].k = "game")
    IN  SubSeq(lines, hs[n], IF n < Len(hs) THEN hs[n + 1] - 1 ELSE Len(lines))

PtHeaders(lines) == {i \in DOMAIN lines : lines[i].k = "game"}

\* The screen names of the hand_players rows of hand h.
HandPlayerNames(d, h) ==
    {p.screen_name : p \in {q \in d.players :
        \E hp \in d.hand_players[h] : hp.player_id = q.id}}

\* C18: a PokerTracker file of k hands is imported as k hands: each
\* GAME #<digits> header of an imported file has a hands row of the owner
\* with that game id, and the players of the hand stored for the file's
\* first header are those of the seat lines of its own block.
C18Claim ==
    \A r \in db.hands :
        (db.parsed_from[r.id] # None /\ db.parsed_from[r.id][1].path = "pt")
        => LET lines == Text(db.parsed_from[r.id][1].raw_text).lines IN
           /\ \A i \in PtHeaders(lines) :
                 \E r2 \in db.hands :
                     r2.user_id = r.user_id /\ r2.game_id = lines[i].id
           /\ HandPlayerNames(db, r.id) =
                 {q.screen_name : q \in Range(pt_players(PtBlock(lines, 1)))}

\* The rake of the hand a payload holds: the Rake amount of the
\* 'Total pot' line of the hand's own block, and for an XML hand what the
\* players bet less what they won.
HandRake(raw_text) ==
    LET t == Text(raw_text) IN
    IF t.fmt = "text"
    THEN LET b == PtBlock(t.lines, 1)
             pots == {i \in DOMAIN b : b[i].k = "pot"}
         IN  IF pots = {} THEN 0
             ELSE b[CHOOSE i \in pots : \A j \in pots : i <= j].rake
    ELSE LET ps == extract_game_from_raw_xml(t).val.players IN
         SeqSum([i \in DOMAIN ps |-> ps[i].bet - ps[i].win])

\* C19: for every parsed hand the net_amount values of its hand_results
\* rows add up to minus the rake of the hand.
C19Claim ==
    \A h \in HandIds :
        db.parsed_from[h] # None =>
            SeqSum([i \in DOMAIN db.hand_results[h] |->
                        db.hand_results[h][i].net_amount]) =
                0 - HandRake(db.parsed_from[h][1].raw_text)

\* The actions of a <game> in document order, before the sort.
SourceActions(game_el) ==
    LET rs == game_el.rounds
        f[i \in 0..Len(rs)] ==
            IF i = 0 THEN <<>> ELSE RoundActions(f[i-1], rs[i])
    IN  f[Len(rs)]

\* Numbered actions in ascending order of their number, actions of one
\* number in their original order.
RECURSIVE ByNumber(_)
ByNumber(s) ==
    IF s = <<>> THEN <<>>
    ELSE LET m == CHOOSE i \in DOMAIN s :
                    /\ \A j \in DOMAIN s : s[i].action_no[1] <= s[j].action_no[1]
                    /\ \A j \in 1..(i-1) : s[j].action_no[1] # s[i].action_no[1]
         IN  <<s[m]>> \o ByNumber(SubSeq(s, 1, m - 1) \o SubSeq(s, m + 1, Len(s)))

\* The order the claim gives: street by street, the numbered actions by
\* number and then the actions without a number in their original order.
ClaimedOrder(s) ==
    LET of(street) ==
            ByNumber(SelectSeq(s, LAMBDA a : a.street = street
                                             /\ a.action_no # None))
            \o SelectSeq(s, LAMBDA a : a.street = street /\ a.action_no = None)
    IN  of("preflop") \o of("flop") \o of("turn") \o of("river")

\* C20: parse_actions returns the actions of the hand ordered by street
\* (preflop, flop, turn, river) and within a street by native number, the
\* actions without a parsable number after every numbered action of their
\* street in their original order, and numbered 1..N.
C20Claim ==
    call.fn = "parse_actions" =>
        LET expected == ClaimedOrder(SourceActions(call.arg)) IN
        call.ret = [i \in DOMAIN expected |->
                        [expected[i] EXCEPT !.action_no = i]]

\* C21: in the result of parse_pokertracker_ipoker every player with a
\* positive invested total has exactly one result row: a winner with net =
\* won - invested, any other contributor with won = 0 and net = -invested;
\* also when the summary has more than one 'wins' line of a player.
C21Claim ==
    (call.fn = "parse_pokertracker_ipoker" /\ ~call.ret.err) =>
        LET lines == call.arg.v.lines
            res == call.ret.val.results
            invested == pt_scan(lines, call.ret.val.players).invested
            wins(n) == \E i \in DOMAIN lines :
                          /\ lines[i].k = "colon" /\ lines[i].name = n
                          /\ lines[i].verb = "wins"
        IN  \A n \in DOMAIN invested :
                invested[n] > 0 =>
                    /\ Cardinality({i \in DOMAIN res : res[i].player = n}) = 1
                    /\ \A i \in DOMAIN res :
                          res[i].player = n =>
                              /\ res[i].net_amount =
                                    res[i].won_amount - invested[n]
                              /\ ~wins(n) => res[i].won_amount = 0

\* C30: parse_pokertracker_ipoker raises exactly for an empty text, a
\* first line that is no GAME #<digits> header and a text without a seat
\* line; on every other text it returns a result, a stake-carrying action
\* line of a name without a seat line included.
C30Claim ==
    call.fn = "parse_pokertracker_ipoker" =>
        LET lines == call.arg.v.lines IN
        call.ret.err <=>
            \/ lines = <<>>
            \/ lines[1].k # "game"
            \/ \A i \in DOMAIN lines : lines[i].k # "seat"

\* C24: both parse_decimal functions give, for a monetary text, the decimal
\* that remains when the currency glyphs and the thousands-separator commas
\* are removed (none when nothing or no decimal remains), so the two give
\* the same value for the same text.
C24Claim ==
    call.fn \in {"xml_parse_decimal", "pt_parse_decimal"} =>
        /\ call.ret = IF call.arg.v.body.k = "num"
                      THEN Some(call.arg.v.body.v) ELSE None
        /\ xml_parse_decimal(call.arg.v) = pt_parse_decimal(call.arg.v)

\* The prefixes in the scanner's fixed order, with their action types.
ClaimedVerbs ==
    <<"Post SB", "Post BB", "Post Ante", "Fold", "Check", "Call", "Bet", "Raise">>
ClaimedTypes ==
    <<"POST_SB", "POST_BB", "POST_ANTE", "FOLD", "CHECK", "CALL", "BET", "RAISE">>

\* The first numeric token among the amount matches of a line, 0 for none.
FirstNumber(runs) ==
    LET nums == SelectSeq(runs, LAMBDA r : r.body.k = "num") IN
    IF nums = <<>> THEN 0 ELSE nums[1].body.v

\* C22: a line '<name>: <text>' before the summary gives the action of the
\* first prefix among Post SB, Post BB, Post Ante, Fold, Check, Call, Bet,
\* Raise that its text starts with, in the street the scanner is in, and no
\* action when it starts with none; for a stake-carrying type the amount is
\* the first currency-formatted numeric token of the text.
C22Claim ==
    call.fn = "pt_scan_line" =>
        LET line == call.arg.v.line
            hits == {i \in DOMAIN ClaimedVerbs : ClaimedVerbs[i] = line.verb}
        IN  IF hits = {} THEN call.ret = <<>>
            ELSE LET i == CHOOSE j \in hits : \A m \in hits : j <= m IN
                 /\ Len(call.ret) = 1
                 /\ call.ret[1].street = call.arg.v.street
                 /\ call.ret[1].player = line.name
                 /\ call.ret[1].action_type = ClaimedTypes[i]
                 /\ call.ret[1].amount =
                       IF line.verb \in StakeVerbs THEN FirstNumber(line.runs)
                       ELSE 0

\* The verb the mapping table of the XML dialect gives a code, Null for a
\* code outside the table.
TableVerb(n) ==
    CASE n = 0 -> "FOLD" [] n = 1 -> "POST_SB" [] n = 2 -> "POST_BB"
      [] n = 3 -> "CALL" [] n = 4 -> "CHECK" [] n = 5 -> "BET"
      [] n \in {6, 23} -> "RAISE" [] n = 7 -> "ALLIN" [] n = 15 -> "POST_ANTE"
      [] OTHER -> Null

C25Claim ==
    call.fn = "parse_hands_from_champion_xml" =>
        \A i \in DOMAIN call.ret :
            LET r == extract_game_from_raw_xml(et_fromstring(call.ret[i].raw_text))
            IN  ~r.err /\ r.val = call.ret[i].game_id

C27Claim ==
    \A r \in db.hands :
        (/\ db.parsed_from[r.id] # None
         /\ db.parsed_from[r.id][1].raw_text # r.raw_text)
            => r \in unparsed_hands(db, r.user_id)

\* The player whose id a row carries has a hand_players row in hand r and
\* a players row of the hand's owner.
RefersToHandPlayer(d, r, player_id) ==
    /\ \E hp \in d.hand_players[r.id] : hp.player_id = player_id
    /\ \E q \in d.players : q.id = player_id /\ q.user_id = r.user_id

\* The names of the player list that the parse of a payload finds.
PlayerListNames(p) ==
    LET ps == IF p.path = "xml"
              THEN parse_players(
                       extract_game_from_raw_xml(Text(p.raw_text)).val)
              ELSE parse_pokertracker_ipoker(Text(p.raw_text)).val.players
    IN  {ps[i].screen_name : i \in DOMAIN ps}

\* The player ids of the actions and hand_results rows of hand h.
RowPlayerIds(d, h) ==
    {d.actions[h][i].player_id : i \in DOMAIN d.actions[h]} \cup
    {d.hand_results[h][i].player_id : i \in DOMAIN d.hand_results[h]}

C29Claim ==
    (pc = "inc_done" /\ ops.runs = 1) =>
        inc.total_parsed =
            Cardinality({h \in inc.pending : db.parsed_from[h] # None})

====
